---- MODULE Spec2Model ----
(***************************************************************************)
(* Plant-Care-Assistant server: the plant store and its REST handlers, the *)
(* watering reminder scan of CronJobService, the notification dispatch of  *)
(* NotificationService and the token handling of AuthController.           *)
(*                                                                         *)
(* Time is the epoch in milliseconds.  The process runs in UTC (the cron   *)
(* tasks default to it), so every local day is DayMs long.  The clock      *)
(* moves over the instants 00:00 and 09:00 of every day: the day boundary  *)
(* the scan normalises to, and the hour the daily task fires.              *)
(***************************************************************************)
EXTENDS Integers, Sequences, FiniteSets, TLC

\* ------------------------------------------------------------------ time
DayMs == 86400000
NineAM == 32400000
TwoAM == 7200000
MaxDay == 9
ApiDays == 1
OverlapDays == 2
CleanupDays == 7
RateSteps == 2
MaxInFlight == 2
MaxExcess == 1
ClientSteps == 3
MaxRetries == 3
MaxTasks == 4
JobSteps == 2
CleanupStart == 10 * DayMs + TwoAM   \* a Sunday, 02:00

NoTime == 0 - 1

StartOfDay(t) == t - (t % DayMs)

AddDays(t, n) == t + n * DayMs

DayOf(t) == t \div DayMs

\* Date.setDate(getDate() - n): the same time of day n days earlier, one day
\* at a time (the instants before day 0 are negative)
RECURSIVE SubtractDays(_, _)
SubtractDays(t, n) == IF n = 0 THEN t ELSE SubtractDays(t - DayMs, n - 1)

\* ------------------------------------------------------------ population
UserIds == {"u1", "u2"}
PlantIds == {"p1", "p2"}
NoPlant == [userId |-> "none"]

GoodToken == "ExponentPushToken[aaaa]"
BadToken == "not-a-push-token"
NoToken == "null"

\* Expo.isExpoPushToken: the SDK's syntactic check
NewToken == "ExponentPushToken[bbbb]"
IsExpoPushToken(t) == t \in {GoodToken, NewToken}

\* ------------------------------------------------------------------ tokens
SecondMs == 1000
AuthSteps == 3
HalfSecond == SecondMs \div 2
DaySeconds == DayMs \div SecondMs
AccessLifetime == 7 * DaySeconds     \* JWT_EXPIRES_IN, default '7d'
RefreshLifetime == 30 * DaySeconds   \* REFRESH_TOKEN_EXPIRES_IN = '30d'
AccessAudience == "plant-care-users"
RefreshAudience == "plant-care-refresh"

\* no token: a null refreshToken column, a header without a token
NoRefresh == [aud |-> "none"]

Account(registered, refreshToken) ==
  [registered |-> registered, refreshToken |-> refreshToken]

NoneIssued == [u \in UserIds |-> [latest |-> NoRefresh, prior |-> {}, cleared |-> FALSE]]

VARIABLES
  clock,     \* Date.now()
  plants,    \* table plant: id -> row, NoPlant where there is no row
  usedIds,   \* ids the database has handed out (a cuid is never reused)
  users,     \* table user: notification settings
  runs,      \* the reminder scans in progress, by what started them
  last,      \* the request handled by the last step, with its response
  watered,   \* per plant, the successful waterings since its last other write
  accounts,  \* table user: whether the row exists, and its refreshToken
  issued,    \* per user, the refresh tokens handed out: the latest, the earlier
  cleanup,   \* the push-token cleanup in progress
  images,    \* table plant: the imageUrl column, by plant id
  objects,   \* the bucket: per object key, whether it is free, stored or deleted
  pending,   \* per client, its create or update request between check and write
  limiter,   \* per rate limiter, its attempts map and the requests it let through
  client,    \* the mobile app: its auth store, its AsyncStorage, its request
  jobs,      \* CronJobService: the jobs map and every cron task ever scheduled
  refreshing \* per client, its POST /auth/refresh between lookup and store

dbVars == <<plants, usedIds, users>>
histVars == <<last, watered>>
authVars == <<accounts, issued>>
sideVars == <<cleanup, images, objects, pending>>
appVars == <<client, jobs, refreshing>>
edgeVars == <<limiter, appVars>>
vars ==
  <<clock, plants, usedIds, users, runs, last, watered, accounts, issued, cleanup,
    images, objects, pending, limiter, client, jobs, refreshing>>

RunIds == {"cron", "manual"}
IdleRun == [pc |-> "idle"]
IdleCleanup == [pc |-> "idle"]

\* the two limiters of the auth routes and their attempts maps, for one IP
Limiters == {"strict", "normal"}
NoRecord == [count |-> 0 - 1]
NoAttempts ==
  [l \in Limiters |-> [record |-> NoRecord, inflight |-> <<>>, admitted |-> 0]]

\* the mobile app before anyone logged in: the store's initial state, an
\* empty AsyncStorage, no request under way
LoggedOut ==
  [user |-> "null", token |-> NoRefresh, refreshToken |-> NoRefresh,
   isAuthenticated |-> FALSE]
NoStorage == [token |-> NoRefresh, refreshToken |-> NoRefresh]
NoCall == [endpoint |-> "none"]
NoResult == [op |-> "none"]
FreshClient ==
  [store |-> LoggedOut, storage |-> NoStorage, pc |-> "idle", call |-> NoCall,
   result |-> NoResult]

\* CronJobService.jobs, by key (0: no entry), and the tasks cron.schedule made
JobKeys == {"watering_reminders", "token_cleanup", "custom_p1", "custom_p2"}
NoJobs == [map |-> [k \in JobKeys |-> 0], tasks |-> <<>>]

\* object keys (uuidv4 names) and the imageUrl values: a key, null, undefined
MaxObjects == 2
ObjectKeys == 1..MaxObjects
NoImage == 0
Undefined == 0 - 1
NoFile == "none"
Clients == {"a", "b"}
NoPending == [op |-> "none"]
NoImages == [p \in PlantIds |-> NoImage]
EmptyBucket == [k \in ObjectKeys |-> "free"]
NonePending == [c \in Clients |-> NoPending]
NoneRefreshing == [c \in Clients |-> NoPending]
imageVars == <<images, objects, pending>>
NoReq == [op |-> "none"]
NoWatering == <<>>

Live(p) == plants[p] # NoPlant

\* ------------------------------------------------------------- history
\* The first time since its latest watering at which a plant was returned
\* by GET /plants/needs-water, and the start of the first scan run since
\* then that sent a reminder for it.
MarkNeedsWater(w, reported, now) ==
  [p \in PlantIds |->
     IF p \in reported /\ w[p] # <<>> /\ w[p][Len(w[p])].needsWaterAt = NoTime
     THEN [w[p] EXCEPT ![Len(w[p])].needsWaterAt = now]
     ELSE w[p]]

MarkReminded(w, p, startedAt) ==
  IF w[p] # <<>> /\ w[p][Len(w[p])].remindedAt = NoTime
  THEN [w EXCEPT ![p][Len(w[p])].remindedAt = startedAt]
  ELSE w

\* --------------------------------------------------- watering-due rule
\* CronJobService.checkWateringReminders, lines 88-93
NextWateringDate(plant) ==
  LET lastWatered == IF plant.lastWatered # NoTime THEN plant.lastWatered
                     ELSE plant.createdAt
  IN StartOfDay(AddDays(lastWatered, plant.wateringFrequency))

\* line 83
UserEligible(user) == user.notificationsEnabled /\ user.pushToken # NoToken

ScanDueStrict(plant, today) == NextWateringDate(plant) < today

\* line 96
ScanDue(plant, today) == NextWateringDate(plant) <= today

DaysOverdueUnnormalised(plant, today) ==
  (today - AddDays(IF plant.lastWatered # NoTime THEN plant.lastWatered
                   ELSE plant.createdAt, plant.wateringFrequency)) \div DayMs

\* lines 100-101
DaysOverdue(plant, today) == (today - NextWateringDate(plant)) \div DayMs

\* ------------------------------------------------- notification dispatch
\* NotificationService.sendNotification: what the provider answers for a
\* well-formed token
ExpoResults == {"ok", "ticket_error", "throws"}

SendNotification(pushToken, expo) ==
  IF ~IsExpoPushToken(pushToken) THEN FALSE
  ELSE expo = "ok"

\* ------------------------------------------------------------ scan run
\* lines 56-78: today, the plant list with owners, the counters
StartRun(r) ==
  /\ runs[r].pc = "idle"
  /\ runs' = [runs EXCEPT ![r] =
       [pc |-> "loop",
        startedAt |-> clock,
        today |-> StartOfDay(clock),
        plants |-> [p \in {q \in PlantIds : Live(q)} |->
                      [plant |-> plants[p], user |-> users[plants[p].userId]]],
        todo |-> {q \in PlantIds : Live(q)},
        remindersProcessed |-> 0,
        remindersSent |-> 0,
        errors |-> <<>>,
        dispatched |-> <<>>]]
  /\ last' = NoReq
  /\ UNCHANGED <<edgeVars, authVars, sideVars, clock, dbVars, watered>>

\* scheduleWateringReminders: '0 9 * * *'
ScheduledRun == clock % DayMs = NineAM /\ StartRun("cron")

TriggerWateringCheckExclusive ==
  (\A r \in RunIds : runs[r].pc = "idle") /\ StartRun("manual")

\* triggerWateringCheck
TriggerWateringCheck == StartRun("manual")

RemainingAbort(todo, p, success) == IF success THEN todo \ {p} ELSE {}

\* line 80 with the try/catch of lines 81 and 131: the plants still to visit
\* after plant p, whatever became of its reminder
Remaining(todo, p, success) == todo \ {p}

AlreadyRemindedByOtherRun(r, p) ==
  \E o \in RunIds \ {r} :
    /\ runs[o].pc \in {"loop", "done"}
    /\ \E i \in DOMAIN runs[o].dispatched : runs[o].dispatched[i].plantId = p

\* template literals of lines 408-415: a text is the sequence of its words
\* and punctuation marks, the number is written in decimal (ToString) and
\* the leading pictograph of a title is left out
WateringChannel == "watering_reminders"

sendWateringReminderTwoWay(plantData) ==
  LET plantName == plantData.plantName
      daysOverdue == plantData.daysOverdue
      title == IF daysOverdue = 0
               THEN <<"Time", "to", "water", "your", "plants", "!">>
               ELSE <<"Plant", "needs", "attention", "!">>
      body == IF daysOverdue = 0
              THEN <<plantName, "needs", "watering", "today", ".">>
              ELSE <<plantName, "is", ToString(daysOverdue), "days", "overdue",
                     "for", "watering", "!">>
  IN [title |-> title, body |-> body,
      data |-> [type |-> "watering_reminder", plantId |-> plantData.plantId,
                plantName |-> plantData.plantName,
                daysOverdue |-> plantData.daysOverdue],
      channelId |-> WateringChannel]

\* NotificationService.sendWateringReminder, lines 398-422: the payload
\* handed to sendNotification
sendWateringReminder(plantData) ==
  LET plantName == plantData.plantName
      daysOverdue == plantData.daysOverdue
      title == IF daysOverdue = 0
               THEN <<"Time", "to", "water", "your", "plants", "!">>
               ELSE IF daysOverdue = 1
               THEN <<"Plant", "watering", "overdue", "!">>
               ELSE <<"Plant", "needs", "attention", "!">>
      body == IF daysOverdue = 0
              THEN <<plantName, "needs", "watering", "today", ".">>
              ELSE IF daysOverdue = 1
              THEN <<plantName, "needed", "watering", "yesterday", ".",
                     "Don't", "forget", "!">>
              ELSE <<plantName, "is", ToString(daysOverdue), "days", "overdue",
                     "for", "watering", "!">>
  IN [title |-> title, body |-> body,
      data |-> [type |-> "watering_reminder", plantId |-> plantData.plantId,
                plantName |-> plantData.plantName,
                daysOverdue |-> plantData.daysOverdue],
      channelId |-> WateringChannel]

\* lines 76-78 and 96: the counters are local to the run and the due test
\* is the only condition; no record of earlier reminders is consulted
AlreadyReminded(r, p) == FALSE

\* lines 80-136: one iteration of the loop, for plant p of the list
ProcessPlant(r, p, expo) ==
  LET run == runs[r]
      plant == run.plants[p].plant
      user == run.plants[p].user
      daysOverdue == DaysOverdue(plant, run.today)
      success == SendNotification(user.pushToken, expo)
      reminderData == [plantId |-> p, daysOverdue |-> daysOverdue,
                       lastWatered |-> IF plant.lastWatered # NoTime
                                       THEN plant.lastWatered ELSE plant.createdAt,
                       to |-> user.pushToken, success |-> success,
                       notification |->
                         sendWateringReminder([plantId |-> p,
                                               plantName |-> plant.name,
                                               daysOverdue |-> daysOverdue])]
      skipped == [run EXCEPT !.todo = Remaining(run.todo, p, TRUE)]
      rest == [run EXCEPT !.todo = Remaining(run.todo, p, success)]
  IN /\ run.pc = "loop"
     /\ p \in run.todo
     /\ IF ~UserEligible(user) THEN
          runs' = [runs EXCEPT ![r] = skipped] /\ UNCHANGED watered
        ELSE IF ~ScanDue(plant, run.today) \/ AlreadyReminded(r, p) THEN
          runs' = [runs EXCEPT ![r] = skipped] /\ UNCHANGED watered
        ELSE
          /\ runs' = [runs EXCEPT ![r] =
               [rest EXCEPT !.remindersProcessed = @ + 1,
                            !.remindersSent = IF success THEN @ + 1 ELSE @,
                            !.errors = IF success THEN @ ELSE Append(@, p),
                            !.dispatched = Append(@, reminderData)]]
          /\ watered' = MarkReminded(watered, p, run.startedAt)
     /\ last' = NoReq
     /\ UNCHANGED <<edgeVars, authVars, sideVars, clock, dbVars>>

FinishRunOnSuccess(r) ==
  /\ runs[r].pc = "loop"
  /\ runs[r].todo = {}
  /\ runs[r].errors = <<>>
  /\ runs' = [runs EXCEPT ![r].pc = "done"]
  /\ last' = NoReq
  /\ UNCHANGED <<edgeVars, authVars, sideVars, clock, dbVars, watered>>

\* lines 138-148: the summary
FinishRun(r) ==
  /\ runs[r].pc = "loop"
  /\ runs[r].todo = {}
  /\ runs' = [runs EXCEPT ![r].pc = "done"]
  /\ last' = NoReq
  /\ UNCHANGED <<edgeVars, authVars, sideVars, clock, dbVars, watered>>

\* the promise of the run has resolved; the next run may start
ReturnRun(r) ==
  /\ runs[r].pc = "done"
  /\ runs' = [runs EXCEPT ![r] = IdleRun]
  /\ last' = NoReq
  /\ UNCHANGED <<edgeVars, authVars, sideVars, clock, dbVars, watered>>

\* ---------------------------------------------------------------- names
\* A name is the sequence of its characters.
Lower(c) == CASE c = "F" -> "f" [] c = "I" -> "i" [] OTHER -> c

ToLower(s) == [i \in 1..Len(s) |-> Lower(s[i])]

\* String.prototype.trim (zod's .trim())
RECURSIVE TrimLeft(_)
TrimLeft(s) == IF s # <<>> /\ Head(s) = " " THEN TrimLeft(Tail(s)) ELSE s

RECURSIVE TrimRight(_)
TrimRight(s) ==
  IF s # <<>> /\ s[Len(s)] = " " THEN TrimRight(SubSeq(s, 1, Len(s) - 1)) ELSE s

Trim(s) == TrimRight(TrimLeft(s))

\* Prisma { contains: sub, mode: 'insensitive' }
ContainsInsensitive(s, sub) ==
  \E i \in 1..(Len(s) - Len(sub) + 1) :
    SubSeq(ToLower(s), i, i + Len(sub) - 1) = ToLower(sub)

\* ------------------------------------------------------ PlantRepository
findByIdOnly(plantId, userId) ==
  IF Live(plantId) THEN plants[plantId] ELSE NoPlant

\* findById: where { id, userId }
findById(plantId, userId) ==
  IF Live(plantId) /\ plants[plantId].userId = userId THEN plants[plantId]
  ELSE NoPlant

\* findByName: where { userId, name: { contains, insensitive } }
findByName(userId, name) ==
  {p \in PlantIds : Live(p) /\ plants[p].userId = userId
                    /\ ContainsInsensitive(plants[p].name, name)}

\* findByUserId: where { userId, OR name contains search }, first page
findByUserId(userId, search) ==
  {p \in PlantIds : Live(p) /\ plants[p].userId = userId
                    /\ (search # <<>> => ContainsInsensitive(plants[p].name, search))}

\* findPlantsNeedingWater, lines 272-301
daysSinceLastWatered(plant, now) == (now - plant.lastWatered) \div DayMs

findPlantsNeedingWater(userId, now) ==
  {p \in PlantIds : /\ Live(p) /\ plants[p].userId = userId
                    /\ plants[p].lastWatered # NoTime
                    /\ daysSinceLastWatered(plants[p], now) >= plants[p].wateringFrequency}

RECURSIVE SumFrequency(_)
SumFrequency(S) ==
  IF S = {} THEN 0
  ELSE LET p == CHOOSE q \in S : TRUE
       IN plants[p].wateringFrequency + SumFrequency(S \ {p})

\* getPlantStats, lines 332-362; the average is kept in hundredths
getPlantStats(userId, now) ==
  LET own == {p \in PlantIds : Live(p) /\ plants[p].userId = userId}
      n == Cardinality(own)
  IN [total |-> n,
      needsWatering |-> Cardinality(findPlantsNeedingWater(userId, now)),
      averageWateringFrequency100 |->
        IF n > 0 THEN (200 * SumFrequency(own) + n) \div (2 * n) ELSE 0]

\* ----------------------------------------------------- request schemas
\* createPlantSchema / updatePlantSchema: wateringFrequency int, 1..365
MinFrequency == 1
MaxFrequency == 365
ValidFrequency(f) == f >= MinFrequency /\ f <= MaxFrequency

\* name: min(1) on the text as sent, then trim
ValidName(raw) == Len(raw) >= 1


\* ------------------------------------------------------ PlantController
\* What a handler answers: the request, the status, the body's data and the
\* plant table as it was when the request arrived.
Response(op, user, id, in, status, data) ==
  [op |-> op, user |-> user, id |-> id, in |-> in, status |-> status,
   data |-> data, pre |-> plants, at |-> clock]

NameConflictSeveral(userId, name) == Cardinality(findByName(userId, name)) > 1

\* createPlant, lines 131-138: the name check
NameConflict(userId, name) == findByName(userId, name) # {}

\* POST /plants: validate(createPlantSchema), createPlant
CreatePlant(u, id, raw, f, lw) ==
  LET name == Trim(raw)
      status == IF ~(ValidName(raw) /\ ValidFrequency(f)) THEN 400
                ELSE IF NameConflict(u, name) THEN 409
                ELSE 201
      row == [userId |-> u, name |-> name, wateringFrequency |-> f,
              lastWatered |-> lw, createdAt |-> clock, updatedAt |-> clock]
  IN /\ status = 201 => id \notin usedIds
     /\ IF status = 201
        THEN /\ plants' = [plants EXCEPT ![id] = row]
             /\ usedIds' = usedIds \cup {id}
             /\ last' = Response("create", u, id, [name |-> raw, f |-> f, lw |-> lw],
                                 201, row)
        ELSE /\ UNCHANGED <<plants, usedIds>>
             /\ last' = Response("create", u, "-", [name |-> raw, f |-> f, lw |-> lw],
                                 status, "error")
     /\ UNCHANGED <<edgeVars, authVars, sideVars, clock, users, runs, watered>>

\* PlantRepository.update, lines 201-233
RepoUpdate(plantId, userId, fields, values, now) ==
  IF findById(plantId, userId) = NoPlant THEN NoPlant
  ELSE [k \in DOMAIN plants[plantId] |->
          IF k \in fields THEN values[k]
          ELSE IF k = "updatedAt" THEN now
          ELSE plants[plantId][k]]

\* PUT /plants/:id: validate(updatePlantSchema), updatePlant
UpdatePlant(u, id, body) ==
  LET existingPlant == findById(id, u)
      name == Trim(body.name)
      valid == /\ "name" \in body.fields => ValidName(body.name)
               /\ "wateringFrequency" \in body.fields
                    => ValidFrequency(body.wateringFrequency)
      conflict == /\ "name" \in body.fields
                  /\ name # <<>>
                  /\ name # existingPlant.name
                  /\ NameConflict(u, name)
      status == IF ~valid THEN 400
                ELSE IF existingPlant = NoPlant THEN 404
                ELSE IF conflict THEN 409
                ELSE 200
      updated == RepoUpdate(id, u, body.fields,
                            [name |-> name,
                             wateringFrequency |-> body.wateringFrequency,
                             lastWatered |-> body.lastWatered], clock)
  IN /\ IF status = 200
        THEN /\ plants' = [plants EXCEPT ![id] = updated]
             /\ watered' = [watered EXCEPT ![id] = NoWatering]
             /\ last' = Response("update", u, id, body, 200, updated)
        ELSE /\ UNCHANGED <<plants, watered>>
             /\ last' = Response("update", u, id, body, status, "error")
     /\ UNCHANGED <<edgeVars, authVars, sideVars, clock, usedIds, users, runs>>

\* DELETE /plants/:id: deletePlant, PlantRepository.delete
DeletePlant(u, id) ==
  /\ IF findById(id, u) = NoPlant
     THEN /\ UNCHANGED <<plants, watered>>
          /\ last' = Response("delete", u, id, <<>>, 404, "error")
     ELSE /\ plants' = [plants EXCEPT ![id] = NoPlant]
          /\ watered' = [watered EXCEPT ![id] = NoWatering]
          /\ last' = Response("delete", u, id, <<>>, 200, "deleted")
  /\ UNCHANGED <<edgeVars, authVars, sideVars, clock, usedIds, users, runs>>

\* waterPlantSchema: wateredAt, or new Date() when none is sent
WateredAtNow(wateredAt, now) == now

WateredAtOrNow(wateredAt, now) == IF wateredAt # NoTime THEN wateredAt ELSE now

updateLastWateredKeepFirst(plantId, userId, wateredAt, now) ==
  IF findById(plantId, userId) # NoPlant /\ plants[plantId].lastWatered # NoTime
  THEN plants[plantId]
  ELSE RepoUpdate(plantId, userId, {"lastWatered"}, [lastWatered |-> wateredAt], now)

\* PlantRepository.updateLastWatered, lines 310-325
updateLastWatered(plantId, userId, wateredAt, now) ==
  RepoUpdate(plantId, userId, {"lastWatered"}, [lastWatered |-> wateredAt], now)

\* POST /plants/:id/water: validate(waterPlantSchema), waterPlant
WaterPlant(u, id, wateredAt) ==
  LET at == WateredAtOrNow(wateredAt, clock)
      updatedPlant == updateLastWatered(id, u, at, clock)
      entry == [at |-> clock, sent |-> wateredAt, wateredAt |-> at, before |-> plants[id],
                needsWaterAt |-> NoTime, remindedAt |-> NoTime]
  IN /\ IF updatedPlant = NoPlant
        THEN /\ UNCHANGED <<plants, watered>>
             /\ last' = Response("water", u, id, [wateredAt |-> wateredAt], 404, "error")
        ELSE /\ plants' = [plants EXCEPT ![id] = updatedPlant]
             /\ watered' = [watered EXCEPT ![id] =
                              IF @ = <<>> THEN <<entry>> ELSE <<@[Len(@)], entry>>]
             /\ last' = Response("water", u, id, [wateredAt |-> wateredAt], 200,
                                 updatedPlant)
     /\ UNCHANGED <<edgeVars, authVars, sideVars, clock, usedIds, users, runs>>

\* GET /plants/:id: getPlantById
GetPlantById(u, id) ==
  /\ last' = IF findById(id, u) = NoPlant
             THEN Response("get", u, id, <<>>, 404, "error")
             ELSE Response("get", u, id, <<>>, 200, findById(id, u))
  /\ UNCHANGED <<edgeVars, authVars, sideVars, clock, dbVars, runs, watered>>

\* GET /plants: getPlants
GetPlants(u, search) ==
  /\ last' = Response("list", u, "-", [search |-> search], 200, findByUserId(u, search))
  /\ UNCHANGED <<edgeVars, authVars, sideVars, clock, dbVars, runs, watered>>

\* GET /plants/needs-water: getPlantsNeedingWater
GetPlantsNeedingWater(u) ==
  /\ last' = Response("needsWater", u, "-", <<>>, 200, findPlantsNeedingWater(u, clock))
  /\ watered' = MarkNeedsWater(watered, findPlantsNeedingWater(u, clock), clock)
  /\ UNCHANGED <<edgeVars, authVars, sideVars, clock, dbVars, runs>>

\* GET /plants/stats: getPlantStats
GetPlantStats(u) ==
  /\ last' = Response("stats", u, "-", <<>>, 200, getPlantStats(u, clock))
  /\ UNCHANGED <<edgeVars, authVars, sideVars, clock, dbVars, runs, watered>>

\* ------------------------------------- PlantController, await by await
\* The handlers createPlant and updatePlant in two steps each: up to the
\* name check, and the write that follows it.  Other requests are served
\* between the two.

\* the unique index of table plant on (userId, name): whether a row of
\* userId other than plantId already has the name
UniqueViolationNone(userId, plantId, name) == FALSE

UniqueViolation(userId, plantId, name) ==
  \E p \in PlantIds \ {plantId} :
    Live(p) /\ plants[p].userId = userId /\ plants[p].name = name

\* what a handler answers, with the imageUrl column and the bucket as they
\* were when the step began
ImageResponse(op, user, id, in, status, data) ==
  [op |-> op, user |-> user, id |-> id, in |-> in, status |-> status,
   data |-> data, pre |-> plants, at |-> clock,
   preImages |-> images, preObjects |-> objects]

\* createPlant, lines 112-138 (no image sent)
CreatePlantCheck(c, u, raw, f) ==
  LET name == Trim(raw)
      status == IF ~(ValidName(raw) /\ ValidFrequency(f)) THEN 400
                ELSE IF NameConflict(u, name) THEN 409
                ELSE 201
  IN /\ pending[c] = NoPending
     /\ IF status = 201
        THEN /\ pending' = [pending EXCEPT ![c] =
                  [op |-> "createPlant", user |-> u, name |-> name, raw |-> raw,
                   f |-> f]]
             /\ last' = NoReq
        ELSE /\ UNCHANGED pending
             /\ last' = ImageResponse("createPlant", u, "-",
                                      [name |-> raw, f |-> f], status, "error")
     /\ UNCHANGED <<edgeVars, authVars, cleanup, images, objects, clock, dbVars, runs, watered>>

\* createPlant, lines 140-164: PlantRepository.create and the answer
CreatePlantWrite(c, id) ==
  LET req == pending[c]
      row == [userId |-> req.user, name |-> req.name, wateringFrequency |-> req.f,
              lastWatered |-> NoTime, createdAt |-> clock, updatedAt |-> clock]
      rejected == UniqueViolation(req.user, id, req.name)
  IN /\ req.op = "createPlant"
     /\ id \notin usedIds
     /\ pending' = [pending EXCEPT ![c] = NoPending]
     /\ IF rejected
        THEN /\ UNCHANGED <<plants, usedIds, images>>
             /\ last' = ImageResponse("createPlant", req.user, "-",
                                      [name |-> req.raw, f |-> req.f], 500, "error")
        ELSE /\ plants' = [plants EXCEPT ![id] = row]
             /\ usedIds' = usedIds \cup {id}
             /\ images' = [images EXCEPT ![id] = NoImage]
             /\ last' = ImageResponse("createPlant", req.user, id,
                                      [name |-> req.raw, f |-> req.f], 201, row)
     /\ UNCHANGED <<edgeVars, authVars, cleanup, objects, clock, users, runs, watered>>

\* uuidv4(): a key no object ever had
FreshKey ==
  IF \E k \in ObjectKeys : objects[k] = "free"
  THEN CHOOSE k \in ObjectKeys :
         objects[k] = "free" /\ \A j \in ObjectKeys : objects[j] = "free" => k <= j
  ELSE NoImage

\* what the storage service comes to
S3Results == {"ok", "throws"}

ExistingImageOrNull(imageUrl) == NoImage

\* line 188: existingPlant.imageUrl || undefined
ExistingImageOrUndefined(imageUrl) ==
  IF imageUrl = NoImage THEN Undefined ELSE imageUrl

\* ImageUploadService.uploadImage, lines 41-82: the bucket with the new
\* object under key when the upload succeeds
uploadImage(bucket, key, put) ==
  IF put = "ok" THEN [bucket EXCEPT ![key] = "stored"] ELSE bucket

\* ImageUploadService.deleteImage with the catch of updateImage, lines
\* 167-175: a failed deletion is logged and changes nothing
deleteOldImage(bucket, oldImageUrl, del) ==
  IF oldImageUrl # NoImage /\ del = "ok"
  THEN [bucket EXCEPT ![oldImageUrl] = "deleted"]
  ELSE bucket

\* ImageUploadService.updateImage, lines 156-181: upload, then delete
updateImage(bucket, key, oldImageUrl, put, del) ==
  IF put = "ok" THEN deleteOldImage(uploadImage(bucket, key, put), oldImageUrl, del)
  ELSE bucket

\* updatePlant, lines 172-217: findById, the image, the name check
UpdatePlantCheck(c, u, id, body, file, key, put, del) ==
  LET existingPlant == findById(id, u)
      existingImage == images[id]
      name == Trim(body.name)
      valid == /\ "name" \in body.fields => ValidName(body.name)
               /\ "wateringFrequency" \in body.fields
                    => ValidFrequency(body.wateringFrequency)
      uploads == valid /\ existingPlant # NoPlant /\ file # NoFile
      conflict == /\ "name" \in body.fields
                  /\ name # <<>>
                  /\ name # existingPlant.name
                  /\ NameConflict(u, name)
      status == IF ~valid THEN 400
                ELSE IF existingPlant = NoPlant THEN 404
                ELSE IF uploads /\ put = "throws" THEN 400
                ELSE IF conflict THEN 409
                ELSE 200
      imageUrl == IF uploads THEN key ELSE ExistingImageOrUndefined(existingImage)
      in == [body |-> body, file |-> file, key |-> key, put |-> put, del |-> del]
  IN /\ pending[c] = NoPending
     /\ key \in ObjectKeys
     /\ objects[key] = "free"
     /\ objects' = IF uploads
                   THEN updateImage(objects, key, existingImage, put, del)
                   ELSE objects
     /\ IF status = 200
        THEN /\ pending' = [pending EXCEPT ![c] =
                  [op |-> "updatePlant", user |-> u, id |-> id, in |-> in,
                   name |-> name, imageUrl |-> imageUrl,
                   existingImage |-> existingImage]]
             /\ last' = NoReq
        ELSE /\ UNCHANGED pending
             /\ last' = ImageResponse("updatePlant", u, id, in, status, "error")
     /\ UNCHANGED <<edgeVars, authVars, cleanup, images, clock, dbVars, runs, watered>>

\* prisma.plant.update: a column whose value is undefined is left alone
PrismaSet(old, value) == IF value = Undefined THEN old ELSE value

\* updatePlant, lines 219-251: updateData, PlantRepository.update (lines
\* 201-233) and the answer
UpdatePlantWrite(c) ==
  LET req == pending[c]
      body == req.in.body
      updated == RepoUpdate(req.id, req.user, body.fields,
                            [name |-> req.name,
                             wateringFrequency |-> body.wateringFrequency,
                             lastWatered |-> body.lastWatered], clock)
      rejected == /\ updated # NoPlant
                  /\ UniqueViolation(req.user, req.id, updated.name)
      status == IF updated = NoPlant THEN 404
                ELSE IF rejected THEN 500
                ELSE 200
  IN /\ req.op = "updatePlant"
     /\ pending' = [pending EXCEPT ![c] = NoPending]
     /\ IF status = 200
        THEN /\ plants' = [plants EXCEPT ![req.id] = updated]
             /\ images' = [images EXCEPT ![req.id] =
                  IF req.imageUrl # req.existingImage
                  THEN PrismaSet(@, req.imageUrl) ELSE @]
             /\ watered' = [watered EXCEPT ![req.id] = NoWatering]
             /\ last' = ImageResponse("updatePlant", req.user, req.id, req.in,
                                      200, updated)
        ELSE /\ UNCHANGED <<plants, images, watered>>
             /\ last' = ImageResponse("updatePlant", req.user, req.id, req.in,
                                      status, "error")
     /\ UNCHANGED <<edgeVars, authVars, cleanup, objects, clock, usedIds, users, runs>>

\* ----------------------------------------------- NotificationController
\* POST /notifications/register-token: registerPushToken
RegisterPushToken(u, pushToken) ==
  /\ IF ~IsExpoPushToken(pushToken)
     THEN /\ UNCHANGED users
          /\ last' = Response("registerToken", u, "-", [pushToken |-> pushToken],
                              400, "error")
     ELSE /\ users' = [users EXCEPT ![u].pushToken = pushToken,
                                    ![u].pushTokenUpdatedAt = clock]
          /\ last' = Response("registerToken", u, "-", [pushToken |-> pushToken],
                              200, "registered")
  /\ UNCHANGED <<edgeVars, authVars, sideVars, clock, plants, usedIds, runs, watered>>

\* PUT /notifications/preferences: updateNotificationPreferences
UpdateNotificationPreferences(u, notificationsEnabled) ==
  /\ users' = [users EXCEPT ![u].notificationsEnabled = notificationsEnabled]
  /\ last' = Response("preferences", u, "-",
                      [notificationsEnabled |-> notificationsEnabled], 200, "updated")
  /\ UNCHANGED <<edgeVars, authVars, sideVars, clock, plants, usedIds, runs, watered>>

\* DELETE /notifications/token: removePushToken
RemovePushToken(u) ==
  /\ users' = [users EXCEPT ![u].pushToken = NoToken,
                            ![u].pushTokenUpdatedAt = NoTime]
  /\ last' = Response("removeToken", u, "-", <<>>, 200, "removed")
  /\ UNCHANGED <<edgeVars, authVars, sideVars, clock, plants, usedIds, runs, watered>>

\* ------------------------------------------------------------ AuthService
\* jwt.sign(payload, secret, { expiresIn, issuer, audience }): the token is
\* a function of the payload, the second of signing and the options
Sign(userId, now, lifetime, aud) ==
  [userId |-> userId, iat |-> now \div SecondMs,
   exp |-> now \div SecondMs + lifetime, aud |-> aud, sig |-> "ok"]

generateToken(userId, now) == Sign(userId, now, AccessLifetime, AccessAudience)

generateRefreshToken(userId, now) == Sign(userId, now, RefreshLifetime, RefreshAudience)

\* jwt.verify(token, secret): the signature and the expiry
JwtVerify(token, now) == token.sig = "ok" /\ now \div SecondMs < token.exp

\* verifyToken, lines 134-152
verifyToken(token, now) == JwtVerify(token, now)

\* verifyRefreshToken, lines 159-180
verifyRefreshToken(token, now) == JwtVerify(token, now) /\ token.aud = RefreshAudience

\* extractTokenFromHeader, lines 187-198
extractTokenFromHeader(authHeader) ==
  IF authHeader.scheme = "Bearer" THEN authHeader.token ELSE NoRefresh

\* --------------------------------------------------------- UserRepository
findByRefreshToken(refreshToken) ==
  {u \in UserIds : accounts[u].registered /\ accounts[u].refreshToken = refreshToken}

storeRefreshToken(userId, refreshToken) ==
  [accounts EXCEPT ![userId].refreshToken = refreshToken]

clearRefreshTokenNot(userId) == accounts

clearRefreshToken(userId) == [accounts EXCEPT ![userId].refreshToken = NoRefresh]

\* the refresh tokens a client may hold: those handed out so far
Issue(userId, refreshToken) ==
  [issued EXCEPT ![userId] =
     [latest |-> refreshToken,
      prior |-> IF @.latest = NoRefresh THEN @.prior ELSE @.prior \cup {@.latest},
      cleared |-> FALSE]]

\* the user's stored refresh token was cleared and none was stored since
Cleared(userId) == [issued EXCEPT ![userId].cleared = TRUE]

IssuedTo(userId) == issued[userId].prior \cup ({issued[userId].latest} \ {NoRefresh})

\* --------------------------------------------------------- AuthMiddleware
\* authenticate, lines 31-92: 401, or next() with req.user
authenticate(authHeader, now) ==
  LET token == extractTokenFromHeader(authHeader)
  IN IF token = NoRefresh THEN [status |-> 401, error |-> "MISSING_TOKEN"]
     ELSE IF ~verifyToken(token, now) THEN [status |-> 401, error |-> "INVALID_TOKEN"]
     ELSE IF ~accounts[token.userId].registered
       THEN [status |-> 401, error |-> "USER_NOT_FOUND"]
     ELSE [status |-> 0, user |-> token.userId]

\* --------------------------------------------------------- AuthController
AuthResponse(op, endpoint, in, status, handlerRan, data) ==
  [op |-> op, endpoint |-> endpoint, in |-> in, status |-> status,
   handlerRan |-> handlerRan, data |-> data, at |-> clock]

\* POST /auth/register: register
RegisterHandler(u) ==
  LET refreshToken == generateRefreshToken(u, clock)
      tokens == [accessToken |-> generateToken(u, clock), refreshToken |-> refreshToken]
  IN /\ IF accounts[u].registered
        THEN /\ UNCHANGED authVars
             /\ last' = AuthResponse("register", "POST /auth/register", [email |-> u],
                                     409, TRUE, "error")
        ELSE /\ accounts' = [accounts EXCEPT ![u] = Account(TRUE, refreshToken)]
             /\ issued' = Issue(u, refreshToken)
             /\ last' = AuthResponse("register", "POST /auth/register", [email |-> u],
                                     201, TRUE, tokens)

Register(u) ==
  /\ RegisterHandler(u)
  /\ UNCHANGED <<edgeVars, sideVars, clock, dbVars, runs, watered>>

\* POST /auth/login: login
LoginHandler(u, isPasswordValid) ==
  LET refreshToken == generateRefreshToken(u, clock)
      tokens == [accessToken |-> generateToken(u, clock), refreshToken |-> refreshToken]
  IN /\ IF ~accounts[u].registered \/ ~isPasswordValid
        THEN /\ UNCHANGED authVars
             /\ last' = AuthResponse("login", "POST /auth/login", [email |-> u],
                                     401, TRUE, "error")
        ELSE /\ accounts' = storeRefreshToken(u, refreshToken)
             /\ issued' = Issue(u, refreshToken)
             /\ last' = AuthResponse("login", "POST /auth/login", [email |-> u],
                                     200, TRUE, tokens)

Login(u, isPasswordValid) ==
  /\ LoginHandler(u, isPasswordValid)
  /\ UNCHANGED <<edgeVars, sideVars, clock, dbVars, runs, watered>>

\* POST /auth/refresh: refreshToken
RefreshTokenHandler(refreshToken) ==
  LET found == findByRefreshToken(refreshToken)
      in == [refreshToken |-> refreshToken,
             superseded |-> refreshToken \in issued[refreshToken.userId].prior,
             afterClear |-> /\ issued[refreshToken.userId].cleared
                            /\ refreshToken \in IssuedTo(refreshToken.userId)]
      newRefreshToken == generateRefreshToken(refreshToken.userId, clock)
      tokens == [accessToken |-> generateToken(refreshToken.userId, clock),
                 refreshToken |-> newRefreshToken]
  IN /\ IF ~verifyRefreshToken(refreshToken, clock)
        THEN /\ UNCHANGED authVars
             /\ last' = AuthResponse("refresh", "POST /auth/refresh", in, 401, TRUE, "error")
        ELSE IF found = {} \/ refreshToken.userId \notin found
        THEN /\ UNCHANGED authVars
             /\ last' = AuthResponse("refresh", "POST /auth/refresh", in, 401, TRUE, "error")
        ELSE /\ accounts' = storeRefreshToken(refreshToken.userId, newRefreshToken)
             /\ issued' = Issue(refreshToken.userId, newRefreshToken)
             /\ last' = AuthResponse("refresh", "POST /auth/refresh", in, 200, TRUE, tokens)

RefreshToken(refreshToken) ==
  /\ RefreshTokenHandler(refreshToken)
  /\ UNCHANGED <<edgeVars, sideVars, clock, dbVars, runs, watered>>

\* POST /auth/refresh, await by await: up to the answer of
\* findByRefreshToken, with which the handler goes on later
RefreshLookup(c, refreshToken) ==
  LET found == findByRefreshToken(refreshToken)
      refused == \/ ~verifyRefreshToken(refreshToken, clock)
                 \/ found = {}
                 \/ refreshToken.userId \notin found
  IN /\ refreshing[c].op # "lookup"
     /\ refreshing' = [refreshing EXCEPT ![c] =
          IF refused THEN [op |-> "answered", refreshToken |-> refreshToken,
                           status |-> 401]
          ELSE [op |-> "lookup", refreshToken |-> refreshToken,
                user |-> refreshToken.userId]]
     /\ last' = IF refused
                THEN AuthResponse("refresh", "POST /auth/refresh",
                                  [refreshToken |-> refreshToken], 401, TRUE, "error")
                ELSE NoReq
     /\ UNCHANGED <<limiter, client, jobs, authVars, sideVars, clock, dbVars, runs,
                    watered>>

\* generateTokenPair, storeRefreshToken and the 200
RefreshStore(c) ==
  LET flight == refreshing[c]
      newRefreshToken == generateRefreshToken(flight.user, clock)
      tokens == [accessToken |-> generateToken(flight.user, clock),
                 refreshToken |-> newRefreshToken]
  IN /\ flight.op = "lookup"
     /\ accounts' = storeRefreshToken(flight.user, newRefreshToken)
     /\ issued' = Issue(flight.user, newRefreshToken)
     /\ refreshing' = [refreshing EXCEPT ![c] =
          [op |-> "answered", refreshToken |-> flight.refreshToken, status |-> 200,
           tokens |-> tokens]]
     /\ last' = AuthResponse("refresh", "POST /auth/refresh",
                             [refreshToken |-> flight.refreshToken], 200, TRUE, tokens)
     /\ UNCHANGED <<limiter, client, jobs, sideVars, clock, dbVars, runs, watered>>

\* POST /auth/logout: authenticate, logout
LogoutHandler(authHeader) ==
  LET auth == authenticate(authHeader, clock)
  IN /\ IF auth.status = 401
        THEN /\ UNCHANGED authVars
             /\ last' = AuthResponse("request", "POST /auth/logout",
                                     [authorization |-> authHeader], 401, FALSE, auth.error)
        ELSE /\ accounts' = clearRefreshToken(auth.user)
             /\ issued' = Cleared(auth.user)
             /\ last' = AuthResponse("request", "POST /auth/logout",
                                     [authorization |-> authHeader], 200, TRUE, auth.user)

Logout(authHeader) ==
  /\ LogoutHandler(authHeader)
  /\ UNCHANGED <<edgeVars, sideVars, clock, dbVars, runs, watered>>

\* UserRepository.update(userId, { password, refreshToken: null })
updatePassword(userId) == [accounts EXCEPT ![userId].refreshToken = NoRefresh]

\* PUT /auth/password: authenticate, changePassword
ChangePassword(authHeader, isCurrentPasswordValid) ==
  LET auth == authenticate(authHeader, clock)
      in == [authorization |-> authHeader]
  IN /\ IF auth.status = 401
        THEN /\ UNCHANGED authVars
             /\ last' = AuthResponse("request", "PUT /auth/password", in, 401, FALSE,
                                     auth.error)
        ELSE IF ~isCurrentPasswordValid
        THEN /\ UNCHANGED authVars
             /\ last' = AuthResponse("request", "PUT /auth/password", in, 400, TRUE,
                                     "error")
        ELSE /\ accounts' = updatePassword(auth.user)
             /\ issued' = Cleared(auth.user)
             /\ last' = AuthResponse("request", "PUT /auth/password", in, 200, TRUE,
                                     auth.user)
     /\ UNCHANGED <<edgeVars, sideVars, clock, dbVars, runs, watered>>

\* routes mounted behind authenticate whose handlers only read here
ProtectedEndpoints == {"GET /auth/me", "GET /plants", "GET /notifications/settings"}

\* authenticate, then the endpoint's handler with req.user
ProtectedHandler(endpoint, authHeader) ==
  LET auth == authenticate(authHeader, clock)
  IN last' = IF auth.status = 401
             THEN AuthResponse("request", endpoint, [authorization |-> authHeader],
                               401, FALSE, auth.error)
             ELSE AuthResponse("request", endpoint, [authorization |-> authHeader],
                               200, TRUE, auth.user)

ProtectedRequest(endpoint, authHeader) ==
  /\ ProtectedHandler(endpoint, authHeader)
  /\ UNCHANGED <<edgeVars, authVars, sideVars, clock, dbVars, runs, watered>>

\* ------------------------------------------------------------- mobile app
\* the body of a 200 of /auth/register, /auth/login and /auth/refresh
TokenBody(tokens) == [success |-> TRUE, data |-> [tokens |-> tokens]]

\* what reading a property an object does not have gives: undefined
UndefinedToken ==
  [userId |-> "undefined", iat |-> 0, exp |-> 0, aud |-> "undefined", sig |-> "none"]

\* const { accessToken } = response.data, response.data being the body
AccessTokenRead(body) ==
  IF "accessToken" \in DOMAIN body THEN body.accessToken ELSE UndefinedToken

\* AsyncStorage.setItem(key, undefined): the library rejects the value, or
\* hands it to the platform storage, which keeps no token under the key
SetItemUndefined == {"throws", "stored"}

\* the request interceptor: Authorization from the stored access token
AuthorizationOf(storage) ==
  IF storage.token = NoRefresh THEN [scheme |-> "none", token |-> NoRefresh]
  ELSE [scheme |-> "Bearer", token |-> storage.token]

\* ApiClient.clearTokens: multiRemove, a failure of which is only logged
clearTokens(storage, removeOk) == IF removeOk THEN NoStorage ELSE storage

\* ApiClient.saveTokens(accessToken, refreshToken)
saveTokens(storage, accessToken, refreshToken) ==
  [token |-> accessToken,
   refreshToken |-> IF refreshToken = NoRefresh THEN storage.refreshToken
                    ELSE refreshToken]

\* useAuthStore.login(user, token, refreshToken), called with the pair of
\* tokens of the 200 the server has just answered a login with
StoreLogin ==
  /\ client.pc = "idle"
  /\ last.op = "login"
  /\ last.status = 200
  /\ client' = [client EXCEPT
       !.storage = saveTokens(@, last.data.accessToken, last.data.refreshToken),
       !.store = [user |-> last.in.email, token |-> last.data.accessToken,
                  refreshToken |-> last.data.refreshToken, isAuthenticated |-> TRUE],
       !.result = [op |-> "login", thrown |-> FALSE]]
  /\ last' = NoReq
  /\ UNCHANGED <<limiter, jobs, refreshing, authVars, sideVars, clock, dbVars, runs,
                 watered>>

\* useAuthStore.logout: clearTokens, then the store is reset in the try
\* block or in the catch block
useAuthStoreLogout(cl, removeOk) ==
  [cl EXCEPT !.storage = clearTokens(@, removeOk), !.store = LoggedOut]

\* useAuth is the hook, a plain function: it has no getState property
HookHasGetState == FALSE

\* handleLogout after authService.logout() has returned: the store's
\* logout is taken from useAuth.getState(), in the try block and again in
\* the catch block
AfterBackendLogout(cl, removeOk) ==
  IF HookHasGetState
  THEN [useAuthStoreLogout(cl, removeOk) EXCEPT
          !.pc = "idle", !.result = [op |-> "logout", thrown |-> FALSE]]
  ELSE [cl EXCEPT !.pc = "idle", !.result = [op |-> "logout", thrown |-> TRUE]]

\* the promise of a request settles with the status: the caller goes on
Settle(cl, status, removeOk) ==
  IF cl.call.caller = "handleLogout" THEN AfterBackendLogout(cl, removeOk)
  ELSE [cl EXCEPT
          !.pc = "idle",
          !.result = [op |-> "request", status |-> status, thrown |-> status # 200,
                      call |-> cl.call, storage |-> cl.storage, at |-> clock]]

\* the server's side of a request of the app
Served(endpoint, authHeader) ==
  IF endpoint = "POST /auth/logout" THEN LogoutHandler(authHeader)
  ELSE ProtectedHandler(endpoint, authHeader) /\ UNCHANGED authVars

\* originalRequest._retry = true
RetriedNot(call) == call

Retried(call) == [call EXCEPT !.retry = TRUE]

\* the response interceptor up to its read of the stored refresh token
OnResponse(cl, status, removeOk) ==
  IF status = 401 /\ ~cl.call.retry
  THEN IF cl.storage.refreshToken = NoRefresh
       THEN Settle([cl EXCEPT !.call = Retried(@)], 401, removeOk)
       ELSE [cl EXCEPT !.pc = "refresh",
                       !.call = [Retried(@) EXCEPT !.held = cl.storage.refreshToken]]
  ELSE Settle(cl, status, removeOk)

NewCall(caller, endpoint) ==
  [caller |-> caller, endpoint |-> endpoint, retry |-> FALSE, held |-> NoRefresh,
   refreshes |-> 0, retries |-> 0, refresh |-> 0, caught |-> FALSE, removed |-> FALSE]

\* a request of the app through both interceptors: a screen's request, or
\* authService.logout() as handleLogout calls it
ClientSend(caller, endpoint, removeOk) ==
  /\ client.pc = "idle"
  /\ Served(endpoint, AuthorizationOf(client.storage))
  /\ client' = OnResponse([client EXCEPT !.call = NewCall(caller, endpoint)],
                          last'.status, removeOk)
  /\ UNCHANGED <<limiter, jobs, refreshing, sideVars, clock, dbVars, runs, watered>>

\* the catch block: clearTokens, then the rejection with the original error
RefreshFailed(cl, removeOk) ==
  Settle([cl EXCEPT !.storage = clearTokens(@, removeOk), !.call.caught = TRUE,
                    !.call.removed = removeOk],
         401, removeOk)

\* the response interceptor from axios.post(/auth/refresh) to the retry
\* or to the catch block
ClientRefresh(setItem, removeOk) ==
  LET counted == [client EXCEPT !.call.refreshes = @ + 1,
                                !.call.refresh = last'.status]
      accessToken == AccessTokenRead(TokenBody(last'.data))
  IN /\ client.pc = "refresh"
     /\ RefreshTokenHandler(client.call.held)
     /\ client' =
          IF last'.status # 200 THEN RefreshFailed(counted, removeOk)
          ELSE IF accessToken = UndefinedToken /\ setItem = "throws"
          THEN RefreshFailed(counted, removeOk)
          ELSE [counted EXCEPT !.storage.token = accessToken, !.pc = "retry"]
     /\ UNCHANGED <<limiter, jobs, refreshing, sideVars, clock, dbVars, runs, watered>>

\* this.client(originalRequest): the request again, through both interceptors
ClientRetry(removeOk) ==
  /\ client.pc = "retry"
  /\ client.call.retries < MaxRetries
  /\ Served(client.call.endpoint, AuthorizationOf(client.storage))
  /\ client' = OnResponse([client EXCEPT !.call.retries = @ + 1], last'.status,
                          removeOk)
  /\ UNCHANGED <<limiter, jobs, refreshing, sideVars, clock, dbVars, runs, watered>>

\* four days pass
FourDays == 4 * DayMs

ClientTick ==
  /\ clock < ClientSteps * FourDays
  /\ clock' = clock + FourDays
  /\ last' = NoReq
  /\ UNCHANGED <<edgeVars, authVars, sideVars, dbVars, runs, watered>>

\* ---------------------------------------------------------- rate limit
\* authRateLimit(maxAttempts, windowMs) as mounted in routes/index.ts
StrictMax == 5
NormalMax == 10
WindowMs == 900000
EightMinutes == 480000

MaxAttempts(l) == IF l = "strict" THEN StrictMax ELSE NormalMax

\* Math.ceil(ms / 1000)
CeilSeconds(ms) == (ms + SecondMs - 1) \div SecondMs

\* the finish listener of the middleware: only 400 and 401 count
CountsAsAttempt(status) == status \in {400, 401}

\* the middleware up to next(): the expired entry is dropped, the entry is
\* created, and the request is refused when the count has reached the limit
Admit(l, req) ==
  LET lim == limiter[l]
      now == clock
      kept == IF lim.record # NoRecord /\ now > lim.record.resetTime
              THEN NoRecord ELSE lim.record
      created == kept = NoRecord
      attemptRecord == IF created THEN [count |-> 0, resetTime |-> now + WindowMs]
                       ELSE kept
      resetIn == CeilSeconds(attemptRecord.resetTime - now)
  IN /\ Len(lim.inflight) < MaxInFlight
     /\ lim.admitted < MaxAttempts(l) + MaxExcess
     /\ IF attemptRecord.count >= MaxAttempts(l)
        THEN /\ limiter' = [limiter EXCEPT ![l].record = attemptRecord]
             /\ last' = [op |-> "rateLimit", limiter |-> l, in |-> req, status |-> 429,
                         retryAfter |-> resetIn, handlerRan |-> FALSE, at |-> clock]
        ELSE /\ limiter' = [limiter EXCEPT
                  ![l].record = attemptRecord,
                  ![l].inflight = Append(@, [req |-> req,
                                             record |-> attemptRecord.resetTime]),
                  ![l].admitted = IF created THEN 1 ELSE @ + 1]
             /\ last' = NoReq
     /\ UNCHANGED <<appVars, authVars, sideVars, clock, dbVars, runs, watered>>

RemoveAt(seq, i) == [j \in 1..(Len(seq) - 1) |-> IF j < i THEN seq[j] ELSE seq[j + 1]]

\* validate(schema) and the handler behind the limiter, then the finish
\* listener on the entry the request was admitted under
Finish(l, i) ==
  LET lim == limiter[l]
      flight == lim.inflight[i]
      req == flight.req
      same == lim.record # NoRecord /\ lim.record.resetTime = flight.record
  IN /\ i \in DOMAIN lim.inflight
     /\ CASE req.route = "register" -> RegisterHandler(req.u)
          [] req.route = "login" -> LoginHandler(req.u, req.isPasswordValid)
          [] req.route = "refresh" -> RefreshTokenHandler(req.refreshToken)
          [] OTHER -> /\ UNCHANGED authVars
                      /\ last' = AuthResponse("invalid", "POST /auth/login",
                                              [email |-> "-"], 400, FALSE, "error")
     /\ limiter' = [limiter EXCEPT
          ![l].inflight = RemoveAt(@, i),
          ![l].record = IF same /\ CountsAsAttempt(last'.status)
                        THEN [@ EXCEPT !.count = @ + 1] ELSE @]
     /\ UNCHANGED <<appVars, sideVars, clock, dbVars, runs, watered>>

\* eight minutes pass
RateTick ==
  /\ clock < RateSteps * EightMinutes
  /\ clock' = clock + EightMinutes
  /\ last' = NoReq
  /\ UNCHANGED <<edgeVars, authVars, sideVars, dbVars, runs, watered>>

\* ---------------------------------------------------- push-token cleanup
ThirtyDays == 30

\* cron expression '0 2 * * 0': Sunday, 02:00 (1 January 1970, day 0, was a
\* Thursday)
Sunday(t) == DayOf(t) % 7 = 3

\* lines 159-160: setDate(getDate() - 30)
thirtyDaysAgo(now) == SubtractDays(now, ThirtyDays)

\* lines 163-171: the where clause of findMany
CleanupCandidate(user, cutoff) ==
  /\ user.pushToken # NoToken
  /\ \/ user.pushTokenUpdatedAt = NoTime
     \/ user.pushTokenUpdatedAt < cutoff

\* line 178
InvalidToken(user) == user.pushToken # NoToken /\ ~IsExpoPushToken(user.pushToken)

\* what a query of the database comes to
DbResults == {"ok", "throws"}

\* the cron callback of scheduleTokenCleanup with lines 158-171 of
\* cleanupOldPushTokens: the list of candidates, or the catch of line 194
StartCleanup(db) ==
  /\ cleanup.pc = "idle"
  /\ clock % DayMs = TwoAM
  /\ Sunday(clock)
  /\ cleanup' =
       [pc |-> IF db = "ok" THEN "loop" ELSE "failed",
        startedAt |-> clock,
        before |-> users,
        found |-> IF db = "ok"
                  THEN {u \in UserIds : CleanupCandidate(users[u], thirtyDaysAgo(clock))}
                  ELSE {},
        todo |-> IF db = "ok"
                 THEN {u \in UserIds : CleanupCandidate(users[u], thirtyDaysAgo(clock))}
                 ELSE {},
        examined |-> {},
        failedOn |-> {},
        tokensRemoved |-> 0]
  /\ last' = NoReq
  /\ UNCHANGED <<edgeVars, authVars, imageVars, clock, dbVars, runs, watered>>

\* lines 177-191: one iteration of the loop, for user u of the list; a
\* rejected update leaves the loop through the catch of line 194
CleanupUser(u, db) ==
  LET user == cleanup.before[u]
  IN /\ cleanup.pc = "loop"
     /\ u \in cleanup.todo
     /\ IF ~InvalidToken(user) THEN
          /\ db = "ok"
          /\ cleanup' = [cleanup EXCEPT !.todo = @ \ {u}, !.examined = @ \cup {u}]
          /\ UNCHANGED users
        ELSE IF db = "ok" THEN
          /\ users' = [users EXCEPT ![u].pushToken = NoToken,
                                    ![u].pushTokenUpdatedAt = NoTime]
          /\ cleanup' = [cleanup EXCEPT !.todo = @ \ {u}, !.examined = @ \cup {u},
                                        !.tokensRemoved = @ + 1]
        ELSE
          /\ cleanup' = [cleanup EXCEPT !.pc = "failed", !.todo = @ \ {u},
                                        !.examined = @ \cup {u},
                                        !.failedOn = {u}]
          /\ UNCHANGED users
     /\ last' = NoReq
     /\ UNCHANGED <<edgeVars, authVars, imageVars, clock, plants, usedIds, runs, watered>>

\* line 192: the summary after the loop
FinishCleanup ==
  /\ cleanup.pc = "loop"
  /\ cleanup.todo = {}
  /\ cleanup' = [cleanup EXCEPT !.pc = "done"]
  /\ last' = NoReq
  /\ UNCHANGED <<edgeVars, authVars, imageVars, clock, dbVars, runs, watered>>

\* the promise of cleanupOldPushTokens resolves
ReturnCleanup ==
  /\ cleanup.pc \in {"done", "failed"}
  /\ cleanup' = IdleCleanup
  /\ last' = NoReq
  /\ UNCHANGED <<edgeVars, authVars, imageVars, clock, dbVars, runs, watered>>

\* ---------------------------------------------------------------- time
Advance(lastDay) ==
  /\ clock < lastDay * DayMs + NineAM
  /\ clock' = IF clock % DayMs = 0 THEN clock + NineAM
              ELSE StartOfDay(clock) + DayMs
  /\ last' = NoReq
  /\ UNCHANGED <<edgeVars, authVars, sideVars, dbVars, runs, watered>>

Tick == Advance(MaxDay)

ApiTick == Advance(ApiDays)

OverlapTick == Advance(OverlapDays)

\* a day passes, from 02:00 to 02:00
CleanupTick ==
  /\ clock < AddDays(CleanupStart, CleanupDays)
  /\ clock' = clock + DayMs
  /\ last' = NoReq
  /\ UNCHANGED <<edgeVars, authVars, sideVars, dbVars, runs, watered>>

\* half a second passes
AuthTick ==
  /\ clock < AuthSteps * HalfSecond
  /\ clock' = clock + HalfSecond
  /\ last' = NoReq
  /\ UNCHANGED <<edgeVars, authVars, sideVars, dbVars, runs, watered>>

\* ------------------------------------------------------ CronJobService
HourMs == 3600000

\* what cron.schedule returns: a task, scheduled, with what its callback
\* has closed over
Task(key, kind, plantId, owner, to, at) ==
  [key |-> key, kind |-> kind, plantId |-> plantId, owner |-> owner, to |-> to,
   at |-> at, status |-> "scheduled", pc |-> "waiting", fired |-> 0, sent |-> <<>>]

CustomKey(plantId) == IF plantId = "p1" THEN "custom_p1" ELSE "custom_p2"

\* const job = cron.schedule(...); this.jobs.set(key, job)
Schedule(js, task) ==
  [map |-> [js.map EXCEPT ![task.key] = Len(js.tasks) + 1],
   tasks |-> Append(js.tasks, task)]

\* initializeJobs, as startServer calls it once
InitializeJobs ==
  /\ \A i \in DOMAIN jobs.tasks : jobs.tasks[i].kind = "custom"
  /\ Len(jobs.tasks) + 2 <= MaxTasks
  /\ jobs' = Schedule(Schedule(jobs, Task("watering_reminders", "watering", "-", "-",
                                          NoToken, NineAM)),
                      Task("token_cleanup", "cleanup", "-", "-", NoToken, TwoAM))
  /\ last' = NoReq
  /\ UNCHANGED <<limiter, client, refreshing, authVars, sideVars, clock, dbVars, runs,
                 watered>>

\* scheduleCustomReminder(plantId, reminderDate)
ScheduleCustomReminder(plantId, reminderDate) ==
  LET plant == plants[plantId]
      user == users[plant.userId]
  IN /\ Len(jobs.tasks) < MaxTasks
     /\ jobs' = IF plant = NoPlant THEN jobs
                ELSE IF user.pushToken = NoToken \/ ~user.notificationsEnabled THEN jobs
                ELSE Schedule(jobs, Task(CustomKey(plantId), "custom", plantId,
                                         plant.userId, user.pushToken, reminderDate))
     /\ last' = NoReq
     /\ UNCHANGED <<limiter, client, refreshing, authVars, sideVars, clock, dbVars, runs,
                    watered>>

\* the callback of a custom reminder, up to the answer of
\* sendWateringReminder(plant.user.pushToken, reminderData)
FireCustom(i, expo) ==
  /\ i \in DOMAIN jobs.tasks
  /\ jobs.tasks[i].kind = "custom"
  /\ jobs.tasks[i].status = "scheduled"
  /\ jobs.tasks[i].pc = "waiting"
  /\ clock = jobs.tasks[i].at
  /\ jobs' = [jobs EXCEPT
       !.tasks[i].pc = "sending",
       !.tasks[i].fired = @ + 1,
       !.tasks[i].sent = Append(@, [to |-> jobs.tasks[i].to,
                                    success |-> SendNotification(jobs.tasks[i].to, expo)])]
  /\ last' = NoReq
  /\ UNCHANGED <<limiter, client, refreshing, authVars, sideVars, clock, dbVars, runs,
                 watered>>

\* the rest of the callback: this.jobs.delete(key); job.destroy()
FinishCustom(i) ==
  /\ i \in DOMAIN jobs.tasks
  /\ jobs.tasks[i].pc = "sending"
  /\ jobs' = [jobs EXCEPT
       !.map[jobs.tasks[i].key] = 0,
       !.tasks[i].pc = "done",
       !.tasks[i].status = "destroyed"]
  /\ last' = NoReq
  /\ UNCHANGED <<limiter, client, refreshing, authVars, sideVars, clock, dbVars, runs,
                 watered>>

\* stopAllJobs: every task of the map is destroyed, the map is cleared
StopAllJobs ==
  /\ jobs' = [map |-> [k \in JobKeys |-> 0],
              tasks |-> [i \in DOMAIN jobs.tasks |->
                           IF jobs.map[jobs.tasks[i].key] = i
                           THEN [jobs.tasks[i] EXCEPT !.status = "destroyed"]
                           ELSE jobs.tasks[i]]]
  /\ last' = [op |-> "stopAllJobs", status |-> 0]
  /\ UNCHANGED <<limiter, client, refreshing, authVars, sideVars, clock, dbVars, runs,
                 watered>>

\* getJobsStatus, as GET /notifications/cron-status returns it
getJobsStatus ==
  {[name |-> k, running |-> jobs.tasks[jobs.map[k]].status = "scheduled"] :
     k \in {key \in JobKeys : jobs.map[key] # 0}}

GetJobsStatus ==
  /\ last' = [op |-> "cronStatus", status |-> 200, data |-> getJobsStatus]
  /\ UNCHANGED <<edgeVars, authVars, sideVars, clock, dbVars, runs, watered>>

\* an hour passes
JobsTick ==
  /\ clock < DayMs + JobSteps * HourMs
  /\ clock' = clock + HourMs
  /\ last' = NoReq
  /\ UNCHANGED <<edgeVars, authVars, sideVars, dbVars, runs, watered>>

\* ======================================================== specifications
Fern == <<"F", "e", "r", "n">>
Ivy == <<"I", "v", "y">>
NameOf(p) == IF p = "p1" THEN Fern ELSE Ivy

NoRuns == [r \in RunIds |-> IdleRun]
NoWaterings == [p \in PlantIds |-> NoWatering]
AllIdle == \A r \in RunIds : runs[r].pc = "idle"

\* ---- the reminder scan over a populated database
ScanFreqs == {1, 7}

ScanRows(p) ==
  [userId : IF p = "p1" THEN {"u1"} ELSE UserIds, name : {NameOf(p)},
   wateringFrequency : ScanFreqs, lastWatered : {NoTime, NineAM},
   createdAt : {0, NineAM}, updatedAt : {NineAM}]

ScanUsers(u) ==
  IF u = "u1"
  THEN [notificationsEnabled : BOOLEAN, pushToken : {NoToken, GoodToken, BadToken},
        pushTokenUpdatedAt : {NoTime}]
  ELSE [notificationsEnabled : {TRUE}, pushToken : {GoodToken},
        pushTokenUpdatedAt : {NoTime}]

InitScan ==
  /\ clock = NineAM
  /\ plants \in {f \in [PlantIds -> UNION {ScanRows(p) : p \in PlantIds}] :
                   \A p \in PlantIds : f[p] \in ScanRows(p)}
  /\ usedIds = PlantIds
  /\ users \in {f \in [UserIds -> UNION {ScanUsers(u) : u \in UserIds}] :
                  \A u \in UserIds : f[u] \in ScanUsers(u)}
  /\ runs = NoRuns
  /\ last = NoReq
  /\ watered = NoWaterings
  /\ accounts = [u \in UserIds |-> Account(TRUE, NoRefresh)]
  /\ issued = NoneIssued
  /\ cleanup = IdleCleanup
  /\ images = NoImages
  /\ objects = EmptyBucket
  /\ pending = NonePending
  /\ limiter = NoAttempts
  /\ client = FreshClient
  /\ jobs = NoJobs
  /\ refreshing = NoneRefreshing

NextScan ==
  \/ (AllIdle /\ Tick)
  \/ (AllIdle /\ ScheduledRun)
  \/ (AllIdle /\ TriggerWateringCheck)
  \/ \E r \in RunIds, p \in PlantIds, expo \in ExpoResults : ProcessPlant(r, p, expo)
  \/ \E r \in RunIds : FinishRun(r)
  \/ \E r \in RunIds : ReturnRun(r)

SpecScan == InitScan /\ [][NextScan]_vars

\* every await of the loop settles (sendNotification resolves to a boolean,
\* the 100 ms timer fires), so a run in progress keeps taking its steps
FairScan ==
  /\ SpecScan
  /\ WF_vars(\E r \in RunIds, p \in PlantIds, expo \in ExpoResults : ProcessPlant(r, p, expo))
  /\ WF_vars(\E r \in RunIds : FinishRun(r))

\* ---- one user waters one plant over a few days
WaterFreqs == {1, 2}

\* wateredAt as sent: none, a backdated one, a post-dated one
WaterStamps == {NoTime, 0, DayMs + NineAM}

ReachableUser ==
  [notificationsEnabled |-> TRUE, pushToken |-> GoodToken, pushTokenUpdatedAt |-> 0]

InitWater ==
  /\ clock = 0
  /\ plants = [p \in PlantIds |-> NoPlant]
  /\ usedIds = {}
  /\ users = [u \in UserIds |-> ReachableUser]
  /\ runs = NoRuns
  /\ last = NoReq
  /\ watered = NoWaterings
  /\ accounts = [u \in UserIds |-> Account(TRUE, NoRefresh)]
  /\ issued = NoneIssued
  /\ cleanup = IdleCleanup
  /\ images = NoImages
  /\ objects = EmptyBucket
  /\ pending = NonePending
  /\ limiter = NoAttempts
  /\ client = FreshClient
  /\ jobs = NoJobs
  /\ refreshing = NoneRefreshing

NextWater ==
  \/ (AllIdle /\ ApiTick)
  \/ \E f \in WaterFreqs : AllIdle /\ CreatePlant("u1", "p1", Fern, f, NoTime)
  \/ \E t \in WaterStamps : AllIdle /\ WaterPlant("u1", "p1", t)
  \/ (AllIdle /\ GetPlantsNeedingWater("u1"))
  \/ (AllIdle /\ TriggerWateringCheck)
  \/ \E r \in RunIds, p \in PlantIds : ProcessPlant(r, p, "ok")
  \/ \E r \in RunIds : FinishRun(r)
  \/ \E r \in RunIds : ReturnRun(r)

SpecWater == InitWater /\ [][NextWater]_vars

\* ---- two users use the plant endpoints on one day
LowerFern == <<"f", "e", "r", "n">>

\* names as sent: a name, the same name in lower case, another name, none
ApiNames == {Fern, LowerFern, Ivy, <<>>}

\* wateringFrequency as sent: one below the minimum, and the minimum
ApiFreqs == {MinFrequency - 1, MinFrequency}

\* PUT bodies: a new name, or a new wateringFrequency
ApiBodies ==
  {[fields |-> {"name"}, name |-> n, wateringFrequency |-> MinFrequency,
    lastWatered |-> NoTime] : n \in {Ivy}}
  \cup
  {[fields |-> {"wateringFrequency"}, name |-> Fern, wateringFrequency |-> f,
    lastWatered |-> NoTime] : f \in ApiFreqs}

InitApi ==
  /\ clock = DayMs
  /\ plants = [p \in PlantIds |-> NoPlant]
  /\ usedIds = {}
  /\ users = [u \in UserIds |-> ReachableUser]
  /\ runs = NoRuns
  /\ last = NoReq
  /\ watered = NoWaterings
  /\ accounts = [u \in UserIds |-> Account(TRUE, NoRefresh)]
  /\ issued = NoneIssued
  /\ cleanup = IdleCleanup
  /\ images = NoImages
  /\ objects = EmptyBucket
  /\ pending = NonePending
  /\ limiter = NoAttempts
  /\ client = FreshClient
  /\ jobs = NoJobs
  /\ refreshing = NoneRefreshing

NextApi ==
  \/ \E u \in UserIds, id \in PlantIds, raw \in ApiNames, f \in ApiFreqs :
        CreatePlant(u, id, raw, f, 0)
  \/ \E u \in UserIds, id \in PlantIds, body \in ApiBodies : UpdatePlant(u, id, body)
  \/ \E u \in UserIds, id \in PlantIds : DeletePlant(u, id)
  \/ \E u \in UserIds, id \in PlantIds : WaterPlant(u, id, NoTime)
  \/ \E u \in UserIds, id \in PlantIds : GetPlantById(u, id)
  \/ \E u \in UserIds : GetPlants(u, <<>>)
  \/ \E u \in UserIds : GetPlantsNeedingWater(u)
  \/ \E u \in UserIds : GetPlantStats(u)

SpecApi == InitApi /\ [][NextApi]_vars

\* ---- two clients register, log in, refresh and call protected endpoints
\* a token signed with another secret
Forged == [userId |-> "u1", iat |-> 0, exp |-> RefreshLifetime,
           aud |-> RefreshAudience, sig |-> "bad"]

\* an access token handed to u1 more than AccessLifetime ago
Expired == [userId |-> "u1", iat |-> 0 - AccessLifetime - 1, exp |-> 0 - 1,
            aud |-> AccessAudience, sig |-> "ok"]

RefreshTokensOut ==
  UNION {issued[u].prior \cup ({issued[u].latest} \ {NoRefresh}) : u \in UserIds}

\* the access token of the pair a refresh token came in
AccessOf(refreshToken) ==
  [refreshToken EXCEPT !.aud = AccessAudience, !.exp = refreshToken.iat + AccessLifetime]

AccessTokensOut == {AccessOf(t) : t \in RefreshTokensOut}

\* Authorization headers a client can send
Headers ==
  {[scheme |-> "none", token |-> NoRefresh]}
  \cup {[scheme |-> "Bearer", token |-> t] :
          t \in RefreshTokensOut \cup AccessTokensOut \cup {Forged, Expired}}
  \cup {[scheme |-> "Basic", token |-> t] : t \in AccessTokensOut}

InitAuth ==
  /\ clock = 0
  /\ plants = [p \in PlantIds |-> NoPlant]
  /\ usedIds = {}
  /\ users = [u \in UserIds |-> ReachableUser]
  /\ runs = NoRuns
  /\ last = NoReq
  /\ watered = NoWaterings
  /\ accounts = [u \in UserIds |-> Account(u = "u1", NoRefresh)]
  /\ issued = NoneIssued
  /\ cleanup = IdleCleanup
  /\ images = NoImages
  /\ objects = EmptyBucket
  /\ pending = NonePending
  /\ limiter = NoAttempts
  /\ client = FreshClient
  /\ jobs = NoJobs
  /\ refreshing = NoneRefreshing

NextAuth ==
  \/ AuthTick
  \/ \E u \in UserIds : Register(u)
  \/ \E u \in UserIds, isPasswordValid \in BOOLEAN : Login(u, isPasswordValid)
  \/ \E t \in RefreshTokensOut \cup AccessTokensOut \cup {Forged} : RefreshToken(t)
  \/ \E h \in Headers : Logout(h)
  \/ \E h \in Headers, isCurrentPasswordValid \in BOOLEAN :
        ChangePassword(h, isCurrentPasswordValid)
  \/ \E e \in ProtectedEndpoints, h \in Headers : ProtectedRequest(e, h)

SpecAuth == InitAuth /\ [][NextAuth]_vars

\* ---- scan runs that take long: time passes and other runs start meanwhile
OverlapRow ==
  [userId |-> "u1", name |-> Fern, wateringFrequency |-> MinFrequency,
   lastWatered |-> NoTime, createdAt |-> 0, updatedAt |-> 0]

InitOverlap ==
  /\ clock = 0
  /\ plants = [p \in PlantIds |-> IF p = "p1" THEN OverlapRow ELSE NoPlant]
  /\ usedIds = {"p1"}
  /\ users = [u \in UserIds |-> ReachableUser]
  /\ runs = NoRuns
  /\ last = NoReq
  /\ watered = NoWaterings
  /\ accounts = [u \in UserIds |-> Account(TRUE, NoRefresh)]
  /\ issued = NoneIssued
  /\ cleanup = IdleCleanup
  /\ images = NoImages
  /\ objects = EmptyBucket
  /\ pending = NonePending
  /\ limiter = NoAttempts
  /\ client = FreshClient
  /\ jobs = NoJobs
  /\ refreshing = NoneRefreshing

NextOverlap ==
  \/ OverlapTick
  \/ ScheduledRun
  \/ TriggerWateringCheck
  \/ \E r \in RunIds, p \in PlantIds, expo \in ExpoResults : ProcessPlant(r, p, expo)
  \/ \E r \in RunIds : FinishRun(r)
  \/ \E r \in RunIds : ReturnRun(r)
  \/ ((\A r \in RunIds : runs[r].pc # "loop") /\ WaterPlant("u1", "p1", NoTime))

SpecOverlap == InitOverlap /\ [][NextOverlap]_vars

\* the user table the cleanup meets: tokens of every age around the limit,
\* among them rows written before the token was validated
CleanupStamps ==
  {NoTime, SubtractDays(CleanupStart, 31), SubtractDays(CleanupStart, 30),
   SubtractDays(CleanupStart, 23)}

CleanupUsers ==
  [notificationsEnabled : {TRUE}, pushToken : {GoodToken, BadToken},
   pushTokenUpdatedAt : CleanupStamps]
  \cup {[notificationsEnabled |-> TRUE, pushToken |-> NoToken,
         pushTokenUpdatedAt |-> NoTime]}

InitCleanup ==
  /\ clock = CleanupStart
  /\ plants = [p \in PlantIds |-> NoPlant]
  /\ usedIds = {}
  /\ users \in [UserIds -> CleanupUsers]
  /\ runs = NoRuns
  /\ last = NoReq
  /\ watered = NoWaterings
  /\ accounts = [u \in UserIds |-> Account(TRUE, NoRefresh)]
  /\ issued = NoneIssued
  /\ cleanup = IdleCleanup
  /\ images = NoImages
  /\ objects = EmptyBucket
  /\ pending = NonePending
  /\ limiter = NoAttempts
  /\ client = FreshClient
  /\ jobs = NoJobs
  /\ refreshing = NoneRefreshing

NextCleanup ==
  \/ (cleanup.pc = "idle" /\ CleanupTick)
  \/ \E db \in DbResults : StartCleanup(db)
  \/ \E u \in UserIds, db \in DbResults : CleanupUser(u, db)
  \/ FinishCleanup
  \/ ReturnCleanup
  \/ (cleanup.pc = "idle" /\ RegisterPushToken("u1", GoodToken))
  \/ (cleanup.pc = "idle" /\ RemovePushToken("u2"))

SpecCleanup == InitCleanup /\ [][NextCleanup]_vars

\* one owner with a plant that has a picture, and room for a second plant
Spaces == <<" ", " ">>
PutNames == {Ivy, Spaces}
PutBodies ==
  {[fields |-> {"name"}, name |-> n, wateringFrequency |-> MinFrequency,
    lastWatered |-> NoTime] : n \in PutNames}
  \cup {[fields |-> {"wateringFrequency"}, name |-> <<>>, wateringFrequency |-> 7,
         lastWatered |-> NoTime]}
JpegFile == "image/jpeg"

InitPut ==
  /\ clock = 0
  /\ plants = [p \in PlantIds |-> IF p = "p1" THEN OverlapRow ELSE NoPlant]
  /\ usedIds = {"p1"}
  /\ users = [u \in UserIds |-> ReachableUser]
  /\ runs = NoRuns
  /\ last = NoReq
  /\ watered = NoWaterings
  /\ accounts = [u \in UserIds |-> Account(TRUE, NoRefresh)]
  /\ issued = NoneIssued
  /\ cleanup = IdleCleanup
  /\ images \in {NoImages, [NoImages EXCEPT !["p1"] = 1]}
  /\ objects = [EmptyBucket EXCEPT ![1] = "stored"]
  /\ pending = NonePending
  /\ limiter = NoAttempts
  /\ client = FreshClient
  /\ jobs = NoJobs
  /\ refreshing = NoneRefreshing

NextPut ==
  \/ \E c \in Clients, raw \in PutNames : CreatePlantCheck(c, "u1", raw, MinFrequency)
  \/ \E c \in Clients, id \in PlantIds : CreatePlantWrite(c, id)
  \/ \E c \in Clients, id \in PlantIds, body \in PutBodies :
       UpdatePlantCheck(c, "u1", id, body, NoFile, FreshKey, "ok", "ok")
  \/ \E c \in Clients, body \in PutBodies, put \in S3Results, del \in S3Results :
       /\ put = "throws" => del = "ok"
       /\ UpdatePlantCheck(c, "u1", "p1", body, JpegFile, FreshKey, put, del)
  \/ \E c \in Clients : UpdatePlantWrite(c)

SpecPut == InitPut /\ [][NextPut]_vars

\* ---- one IP sends register, login and refresh requests, some at once
\* The two limiters keep separate maps: the IP either keeps to register and
\* login, or logs in once and then sends refresh requests.
StrictRequests ==
  {[route |-> "login", u |-> "u1", isPasswordValid |-> v] : v \in BOOLEAN}
  \cup {[route |-> "register", u |-> "u2"], [route |-> "invalid"]}

NormalRequests ==
  {[route |-> "refresh", refreshToken |-> t] :
     t \in ({issued["u1"].latest} \ {NoRefresh}) \cup {Forged}}

Unused(l) == limiter[l] = NoAttempts[l]

OneLogin == limiter["strict"].admitted <= 1 /\ limiter["strict"].inflight = <<>>

InitRate == InitAuth

NextRate ==
  \/ RateTick
  \/ \E req \in StrictRequests : Unused("normal") /\ Admit("strict", req)
  \/ \E req \in NormalRequests : OneLogin /\ Admit("normal", req)
  \/ \E l \in Limiters, i \in 1..MaxInFlight : Finish(l, i)

SpecRate == InitRate /\ [][NextRate]_vars

\* ---- the mobile app of u1 logs in, calls the API and logs out over days
ClientEndpoints == {"GET /auth/me", "GET /plants"}

\* handleLogout of the home screen, up to the first await that can yield
HandleLogout(removeOk) == ClientSend("handleLogout", "POST /auth/logout", removeOk)

InitClient == InitAuth

NextClient ==
  \/ ClientTick
  \/ \E isPasswordValid \in BOOLEAN : Login("u1", isPasswordValid)
  \/ StoreLogin
  \/ \E e \in ClientEndpoints, removeOk \in BOOLEAN : ClientSend("screen", e, removeOk)
  \/ \E removeOk \in BOOLEAN : HandleLogout(removeOk)
  \/ \E setItem \in SetItemUndefined, removeOk \in BOOLEAN :
        ClientRefresh(setItem, removeOk)
  \/ \E removeOk \in BOOLEAN : ClientRetry(removeOk)

SpecClient == InitClient /\ [][NextClient]_vars

\* ---- one user names and renames plants: a name, the same name in lower
\* case, the beginning of the name, another name
Fe == <<"F", "e">>

NameInputs == {Fern, LowerFern, Fe, Ivy}

NameBodies ==
  {[fields |-> {"name"}, name |-> n, wateringFrequency |-> MinFrequency,
    lastWatered |-> NoTime] : n \in NameInputs}

InitName == InitApi

NextName ==
  \/ \E id \in PlantIds, raw \in NameInputs : CreatePlant("u1", id, raw, MinFrequency, 0)
  \/ \E id \in PlantIds, body \in NameBodies : UpdatePlant("u1", id, body)
  \/ \E id \in PlantIds : DeletePlant("u1", id)

SpecName == InitName /\ [][NextName]_vars

\* ---- two clients of u1 redeem refresh tokens, possibly the same, at once
InitRefresh == InitAuth

NextRefresh ==
  \/ AuthTick
  \/ Login("u1", TRUE)
  \/ \E c \in Clients, t \in RefreshTokensOut : RefreshLookup(c, t)
  \/ \E c \in Clients : RefreshStore(c)

SpecRefresh == InitRefresh /\ [][NextRefresh]_vars

\* ---- the owner changes the notification settings while a scan runs and
\* while a custom reminder waits for its time
InitNotify ==
  /\ clock = DayMs
  /\ plants = [p \in PlantIds |-> IF p = "p1" THEN OverlapRow ELSE NoPlant]
  /\ usedIds = {"p1"}
  /\ users = [u \in UserIds |-> ReachableUser]
  /\ runs = NoRuns
  /\ last = NoReq
  /\ watered = NoWaterings
  /\ accounts = [u \in UserIds |-> Account(TRUE, NoRefresh)]
  /\ issued = NoneIssued
  /\ cleanup = IdleCleanup
  /\ images = NoImages
  /\ objects = EmptyBucket
  /\ pending = NonePending
  /\ limiter = NoAttempts
  /\ client = FreshClient
  /\ jobs = NoJobs
  /\ refreshing = NoneRefreshing

NextNotify ==
  \/ JobsTick
  \/ TriggerWateringCheck
  \/ \E r \in RunIds, p \in PlantIds : ProcessPlant(r, p, "ok")
  \/ \E r \in RunIds : FinishRun(r)
  \/ \E r \in RunIds : ReturnRun(r)
  \/ \E enabled \in BOOLEAN : UpdateNotificationPreferences("u1", enabled)
  \/ RemovePushToken("u1")
  \/ RegisterPushToken("u1", NewToken)
  \/ (jobs.tasks = <<>> /\ ScheduleCustomReminder("p1", clock + HourMs))
  \/ \E i \in 1..MaxTasks : FireCustom(i, "ok")
  \/ \E i \in 1..MaxTasks : FinishCustom(i)

SpecNotify == InitNotify /\ [][NextNotify]_vars

\* ---- the server schedules its jobs and custom reminders, and shuts down
InitJobs == InitNotify

NextJobs ==
  \/ JobsTick
  \/ InitializeJobs
  \/ \E p \in PlantIds : ScheduleCustomReminder(p, clock + HourMs)
  \/ \E i \in 1..MaxTasks : FireCustom(i, "ok")
  \/ \E i \in 1..MaxTasks : FinishCustom(i)
  \/ StopAllJobs
  \/ GetJobsStatus

SpecJobs == InitJobs /\ [][NextJobs]_vars

\* ================================================================ claims
\* the reminders a run has handed to the notification service for plant p
RemindersFor(run, p) ==
  {i \in DOMAIN run.dispatched : run.dispatched[i].plantId = p}

\* "lastWatered, or createdAt when lastWatered is null"
WateringBase(row) == IF row.lastWatered # NoTime THEN row.lastWatered ELSE row.createdAt

OwnerReachable(row) ==
  users[row.userId].notificationsEnabled /\ users[row.userId].pushToken # NoToken

DueOnDayOf(row, now) ==
  StartOfDay(WateringBase(row) + row.wateringFrequency * DayMs) <= StartOfDay(now)

Started(r) == runs[r].pc \in {"loop", "done"}

\* C1: in one scan run every plant of the table gets exactly one reminder
\* when its owner has notifications enabled and a push token and
\* startOfDay(lastWatered-or-createdAt + wateringFrequency days) <=
\* startOfDay(now), and no reminder otherwise.  (The table does not change
\* under SpecScan, so the rows are those the run read.)
C1_OneReminderPerDuePlant ==
  \A r \in RunIds : Started(r) =>
    /\ DOMAIN runs[r].plants = {p \in PlantIds : Live(p)}
    /\ \A p \in DOMAIN runs[r].plants :
         LET n == Cardinality(RemindersFor(runs[r], p))
             expected == OwnerReachable(plants[p])
                         /\ DueOnDayOf(plants[p], runs[r].startedAt)
         IN IF p \in runs[r].todo THEN n = 0
            ELSE n = IF expected THEN 1 ELSE 0

C1_Witness ==
  \E r \in RunIds : /\ runs[r].pc = "done"
                    /\ \E p, q \in DOMAIN runs[r].plants :
                         /\ Cardinality(RemindersFor(runs[r], p)) = 1
                         /\ Cardinality(RemindersFor(runs[r], q)) = 0
                         /\ ~DueOnDayOf(plants[q], runs[r].startedAt)

\* the plant of the scenario: created on day 0, every 7 days, never watered,
\* its owner reachable
ScenarioPlant(p) ==
  /\ Live(p)
  /\ DayOf(plants[p].createdAt) = 0
  /\ plants[p].wateringFrequency = 7
  /\ plants[p].lastWatered = NoTime
  /\ OwnerReachable(plants[p])

\* C2: every reminder payload carries daysOverdue =
\* floor((startOfDay(now) - startOfDay(nextDue)) / 1 day), never negative;
\* a plant created on day 0 with frequency 7 and never watered gets no
\* reminder on day 6, one with daysOverdue 0 on day 7 and one with
\* daysOverdue 2 on day 9.
C2_DaysOverdue ==
  \A r \in RunIds : Started(r) =>
    /\ \A i \in DOMAIN runs[r].dispatched :
         LET d == runs[r].dispatched[i]
             row == plants[d.plantId]
             nextDue == WateringBase(row) + row.wateringFrequency * DayMs
         IN /\ d.daysOverdue =
                 (StartOfDay(runs[r].startedAt) - StartOfDay(nextDue)) \div DayMs
            /\ d.daysOverdue >= 0
    /\ \A p \in DOMAIN runs[r].plants :
         (ScenarioPlant(p) /\ p \notin runs[r].todo) =>
           LET day == DayOf(runs[r].startedAt)
               sent == {runs[r].dispatched[i].daysOverdue : i \in RemindersFor(runs[r], p)}
           IN /\ day = 6 => sent = {}
              /\ day = 7 => sent = {0}
              /\ day = 9 => sent = {2}

C2_Witness ==
  \E r \in RunIds, p \in PlantIds :
    /\ runs[r].pc = "done"
    /\ ScenarioPlant(p)
    /\ DayOf(runs[r].startedAt) = 9
    /\ plants[p].createdAt = NineAM
    /\ \E i \in RemindersFor(runs[r], p) : runs[r].dispatched[i].daysOverdue = 2

FailedReminders(run) == {i \in DOMAIN run.dispatched : ~run.dispatched[i].success}

\* C3: when the reminder of one plant fails in a scan run (the send returns
\* false), every other plant of the batch is still visited and, when its
\* owner is reachable and it is due, gets its reminder; each failure is
\* recorded in the run's error list.
C3_FailureDoesNotAbortBatch ==
  \A r \in RunIds : runs[r].pc = "done" =>
    LET run == runs[r]
    IN /\ FailedReminders(run) # {} =>
            \A p \in {q \in PlantIds : Live(q)} :
              /\ p \in DOMAIN run.plants /\ p \notin run.todo
              /\ (OwnerReachable(plants[p]) /\ DueOnDayOf(plants[p], run.startedAt))
                   => RemindersFor(run, p) # {}
       /\ Len(run.errors) = Cardinality(FailedReminders(run))
       /\ \A i \in FailedReminders(run) :
            \E j \in DOMAIN run.errors : run.errors[j] = run.dispatched[i].plantId

C3_Witness ==
  \E r \in RunIds :
    /\ runs[r].pc = "done"
    /\ \E i, j \in DOMAIN runs[r].dispatched :
         /\ i < j
         /\ ~runs[r].dispatched[i].success
         /\ runs[r].dispatched[i].to = BadToken
         /\ runs[r].dispatched[j].success
         /\ Len(runs[r].errors) = 1

\* ---------------------------------------------------------- C4, C5, C6
Watered(p) == Live(p) /\ watered[p] # <<>>

LatestWatering(p) == watered[p][Len(watered[p])]

\* the row a single watering with timestamp t, handled at now, leaves
WateredOnce(row, t, now) == [row EXCEPT !.lastWatered = t, !.updatedAt = now]

\* first report by GET /plants/needs-water after watering w is not before t
NeedsWaterNotBefore(w, t) == w.needsWaterAt # NoTime => w.needsWaterAt >= t

\* the first scan run after watering w that reminded did not start before t
RemindedNotBefore(w, t) == w.remindedAt # NoTime => w.remindedAt >= t

TwiceInARow(p) ==
  /\ Live(p)
  /\ Len(watered[p]) = 2
  /\ watered[p][1].wateredAt <= watered[p][2].wateredAt

C6_NeverWateredDueFromCreation ==
  last.op = "needsWater" =>
    \A p \in PlantIds :
      (Live(p) /\ plants[p].userId = last.user /\ plants[p].lastWatered = NoTime) =>
        (p \in last.data <=>
           clock >= StartOfDay(plants[p].createdAt + plants[p].wateringFrequency * DayMs))

\* -------------------------------------------------------------- C7, C8
\* the plants of user u in table t
PlantsOf(t, u) == {p \in PlantIds : t[p] # NoPlant /\ t[p].userId = u}

\* the POST /plants request just answered passed createPlantSchema and its
\* name is the name of a plant the requesting user had
CreateWithUsedName ==
  /\ last.op = "create"
  /\ ValidName(last.in.name) /\ ValidFrequency(last.in.f)
  /\ \E p \in PlantsOf(last.pre, last.user) : last.pre[p].name = Trim(last.in.name)

\* C7: POST /plants (a request that passes validation) with a name the
\* requesting user already uses is answered 409, no row is created and the
\* user's plants are unchanged.
C7_DuplicateNameConflict ==
  CreateWithUsedName =>
    /\ last.status = 409
    /\ plants = last.pre
    /\ PlantsOf(plants, last.user) = PlantsOf(last.pre, last.user)

\* a second "Fern" was refused while the other user could still use the name
C7_Witness ==
  /\ CreateWithUsedName
  /\ last.status = 409
  /\ Trim(last.in.name) = Fern
  /\ \E p \in PlantIds : Live(p) /\ plants[p].userId # last.user /\ plants[p].name = Fern

\* the request just answered addressed, by id, a plant of another user
ForeignPlantRequest ==
  /\ last.op \in {"get", "update", "delete", "water"}
  /\ last.pre[last.id] # NoPlant
  /\ last.pre[last.id].userId # last.user

\* what the same request gets for an id that does not exist
MissingPlantAnswer(req) ==
  IF req.op = "update"
       /\ ~(/\ "name" \in req.in.fields => ValidName(req.in.name)
            /\ "wateringFrequency" \in req.in.fields
                 => ValidFrequency(req.in.wateringFrequency))
  THEN [status |-> 400, data |-> "error"]
  ELSE [status |-> 404, data |-> "error"]

\* C8: GET, PUT, DELETE and POST .../water on the id of another user's
\* plant are answered as for an id that does not exist (404 for a request
\* that passes validation) and change no row; the answers to list,
\* needs-water and stats are made of the requesting user's plants only.
C8_ForeignPlantIsMissing ==
  /\ ForeignPlantRequest =>
       /\ last.status = MissingPlantAnswer(last).status
       /\ last.data = MissingPlantAnswer(last).data
       /\ (last.op # "update" => last.status = 404)
       /\ plants = last.pre
  /\ last.op \in {"list", "needsWater"} =>
       last.data \subseteq PlantsOf(last.pre, last.user)
  /\ last.op = "stats" =>
       /\ last.data.total = Cardinality(PlantsOf(last.pre, last.user))
       /\ last.data.needsWatering <= last.data.total
       /\ (PlantsOf(last.pre, last.user) = {} =>
             last.data.averageWateringFrequency100 = 0)

\* user u2 tried to water a due plant of u1 and got 404
C8_Witness ==
  /\ ForeignPlantRequest
  /\ last.op = "water"
  /\ last.user = "u2"
  /\ last.status = 404
  /\ last.id \in findPlantsNeedingWater("u1", clock)

\* ------------------------------------------------------------- C9, C10
\* the header carries a Bearer token that is an unexpired access token
ValidAccessHeader(authHeader, now) ==
  /\ authHeader.scheme = "Bearer"
  /\ authHeader.token # NoRefresh
  /\ authHeader.token.sig = "ok"
  /\ authHeader.token.aud = AccessAudience
  /\ now \div SecondMs < authHeader.token.exp

\* C9: a request to an endpoint other than POST /auth/register, /auth/login
\* and /auth/refresh that carries no valid "Authorization: Bearer
\* <accessToken>" header is answered 401 and its handler is not run.
C9_ProtectedEndpointsNeedAccessToken ==
  (last.op = "request" /\ ~ValidAccessHeader(last.in.authorization, last.at)) =>
    (last.status = 401 /\ ~last.handlerRan)

\* C10: POST /auth/refresh with a refresh token that was handed to the user
\* before the user's latest refresh token was issued is answered 401.
C10_PriorRefreshTokensRejected ==
  (last.op = "refresh" /\ last.in.superseded) => last.status = 401

SummaryReported(r) ==
  LET run == runs[r]
  IN /\ run.pc = "done"
     /\ run.todo = {}
     /\ run.remindersProcessed = Len(run.dispatched)
     /\ run.remindersSent =
          Cardinality({i \in DOMAIN run.dispatched : run.dispatched[i].success})
     /\ Len(run.errors) = run.remindersProcessed - run.remindersSent

\* C12: a scan run that has its plant list, started by the schedule or by
\* triggerWateringCheck, always comes to its end and reports the summary
\* counts, whatever the outcome of each plant's reminder.
C12_RunTerminatesWithSummary ==
  \A r \in RunIds : (runs[r].pc = "loop") ~> SummaryReported(r)

\* a manual run in which every reminder failed has reported its summary
C12_Witness ==
  /\ SummaryReported("manual")
  /\ runs["manual"].remindersProcessed = 2
  /\ runs["manual"].remindersSent = 0

\* -------------------------------------------------------------- C13, C14
\* run r has been through plant p of its list
Visited(r, p) ==
  /\ Started(r)
  /\ p \in DOMAIN runs[r].plants
  /\ p \notin runs[r].todo

\* the reminder run r sent for plant p
ReminderOf(r, p) ==
  runs[r].dispatched[CHOOSE i \in DOMAIN runs[r].dispatched :
                       runs[r].dispatched[i].plantId = p]

\* plant p was not watered and its owner stayed eligible between the lists
\* of runs r1 and r2
SameWateringState(r1, r2, p) ==
  /\ runs[r1].plants[p].plant.lastWatered = runs[r2].plants[p].plant.lastWatered
  /\ UserEligible(runs[r1].plants[p].user)
  /\ UserEligible(runs[r2].plants[p].user)

\* C13: a plant reminded in one run and still unwatered, its owner still
\* eligible, gets a new reminder in every later run, and its daysOverdue
\* grows by the number of days between the runs.
C13_ReminderEveryRun ==
  \A r1, r2 \in RunIds : \A p \in PlantIds :
    (/\ r1 # r2
     /\ Visited(r1, p) /\ Visited(r2, p)
     /\ runs[r1].startedAt <= runs[r2].startedAt
     /\ SameWateringState(r1, r2, p)
     /\ RemindersFor(runs[r1], p) # {})
    => /\ Cardinality(RemindersFor(runs[r2], p)) = 1
       /\ ReminderOf(r2, p).daysOverdue =
            ReminderOf(r1, p).daysOverdue
              + DayOf(runs[r2].today) - DayOf(runs[r1].today)

\* the plant was reminded as due today on one day and as one day overdue
\* on the next
C13_Witness ==
  /\ Visited("cron", "p1") /\ Visited("manual", "p1")
  /\ RemindersFor(runs["cron"], "p1") # {}
  /\ RemindersFor(runs["manual"], "p1") # {}
  /\ ReminderOf("cron", "p1").daysOverdue = 0
  /\ ReminderOf("manual", "p1").daysOverdue = 1

BothInProgress == \A r \in RunIds : runs[r].pc = "loop"

\* C14: a run can start while another one is in progress (the manual
\* trigger whenever it is called, the schedule whenever it is 09:00), and
\* two runs in progress at once each send their own reminder for a plant
\* that is due in both lists.
C14_RunsOverlap ==
  /\ runs["manual"].pc = "idle" => ENABLED TriggerWateringCheck
  /\ (runs["cron"].pc = "idle" /\ clock % DayMs = NineAM) => ENABLED ScheduledRun
  /\ BothInProgress =>
       \A p \in PlantIds :
         (/\ Visited("cron", p) /\ Visited("manual", p)
          /\ \A r \in RunIds : /\ UserEligible(runs[r].plants[p].user)
                               /\ ScanDue(runs[r].plants[p].plant, runs[r].today))
         => \A r \in RunIds : Cardinality(RemindersFor(runs[r], p)) = 1

\* two runs in progress at once on the same day have both reminded for p1
C14_Witness ==
  /\ BothInProgress
  /\ runs["cron"].today = runs["manual"].today
  /\ \A r \in RunIds : Cardinality(RemindersFor(runs[r], "p1")) = 1

\* -------------------------------------------------------------- C15
\* text holds the words of part one after the other
Contains(text, part) ==
  \E k \in 0..(Len(text) - Len(part)) :
    \A j \in 1..Len(part) : text[k + j] = part[j]

AllReminders == {<<r, i>> : r \in RunIds, i \in 1..Cardinality(PlantIds)}

Dispatched ==
  {ri \in AllReminders : Started(ri[1]) /\ ri[2] \in DOMAIN runs[ri[1]].dispatched}

\* C15: the text of a reminder follows daysOverdue (0: needs watering
\* today; 1: yesterday, overdue; N > 1: "N days overdue"), and every
\* reminder goes to channel watering_reminders with the plant's id and name
\* and daysOverdue in its data.
C15_ReminderMessage ==
  \A ri \in Dispatched :
    LET d == runs[ri[1]].dispatched[ri[2]]
        n == d.notification
    IN /\ d.daysOverdue = 0 =>
            /\ Contains(n.body, <<"needs", "watering", "today">>)
            /\ ~Contains(n.body, <<"overdue">>)
            /\ ~Contains(n.body, <<"yesterday">>)
       /\ d.daysOverdue = 1 =>
            /\ Contains(n.body, <<"yesterday">>)
            /\ Contains(n.title, <<"overdue">>)
            /\ ~Contains(n.body, <<"today">>)
            /\ ~Contains(n.body, <<"days", "overdue">>)
       /\ d.daysOverdue > 1 =>
            /\ Contains(n.body, <<ToString(d.daysOverdue), "days", "overdue">>)
            /\ ~Contains(n.body, <<"today">>)
            /\ ~Contains(n.body, <<"yesterday">>)
       /\ Contains(n.body, <<runs[ri[1]].plants[d.plantId].plant.name>>)
       /\ n.channelId = "watering_reminders"
       /\ n.data.plantId = d.plantId
       /\ n.data.plantName = runs[ri[1]].plants[d.plantId].plant.name
       /\ n.data.daysOverdue = d.daysOverdue

\* one run has sent a "yesterday" reminder for one plant and a
\* "7 days overdue" reminder for the other
C15_Witness ==
  \E r \in RunIds :
    /\ Started(r)
    /\ \E i, j \in DOMAIN runs[r].dispatched :
         /\ runs[r].dispatched[i].daysOverdue = 1
         /\ runs[r].dispatched[j].daysOverdue = 7
         /\ Contains(runs[r].dispatched[i].notification.body, <<"yesterday">>)
         /\ Contains(runs[r].dispatched[j].notification.body,
                     <<"7", "days", "overdue">>)

\* -------------------------------------------------------------- C16, C17
CleanupEnded == cleanup.pc \in {"done", "failed"}

Ran(u) == users[u].pushToken = NoToken /\ users[u].pushTokenUpdatedAt = NoTime

\* the timestamp lies more than 30 days before the instant now
OlderThanThirtyDays(stamp, now) ==
  \/ DayOf(now) - DayOf(stamp) > 30
  \/ DayOf(now) - DayOf(stamp) = 30 /\ now % DayMs > stamp % DayMs

\* C16: when clearing the token of one user fails in a cleanup, every other
\* candidate is still examined and an invalid token of it is cleared.
C16_FailureDoesNotStopCleanup ==
  (CleanupEnded /\ cleanup.failedOn # {}) =>
    \A u \in cleanup.found \ cleanup.failedOn :
      /\ u \in cleanup.examined
      /\ InvalidToken(cleanup.before[u]) => Ran(u)

\* the cleanup got its list and has ended, at the summary or in the catch
ListedAndEnded == cleanup.pc = "done" \/ (cleanup.pc = "failed" /\ cleanup.failedOn # {})

\* C17: a cleanup sets the token and its timestamp to null for exactly the
\* users that had a token with an absent or more than 30 days old timestamp
\* which the validator rejects (the user whose update the database rejected
\* aside); every other user's row is as it was before the cleanup.
C17_ClearsExactlyStaleInvalid ==
  cleanup.pc # "idle" =>
    \A u \in UserIds :
      LET was == cleanup.before[u]
          due == /\ was.pushToken # NoToken
                 /\ \/ was.pushTokenUpdatedAt = NoTime
                    \/ OlderThanThirtyDays(was.pushTokenUpdatedAt, cleanup.startedAt)
                 /\ ~IsExpoPushToken(was.pushToken)
      IN /\ users[u] # was => (due /\ users[u] = [was EXCEPT !.pushToken = NoToken,
                                                           !.pushTokenUpdatedAt = NoTime])
         /\ (ListedAndEnded /\ due /\ u \notin cleanup.failedOn) => Ran(u)

PutAnswered == last.op = "updatePlant" /\ last.status = 200

\* C19: an update without an image file leaves imageUrl as it was, and of
\* the row only the fields sent in the body, and updatedAt, change.
C19_NoImageKeepsImageUrl ==
  (PutAnswered /\ last.in.file = NoFile) =>
    /\ images[last.id] = last.preImages[last.id]
    /\ objects = last.preObjects
    /\ \A k \in DOMAIN plants[last.id] :
         (k \notin last.in.body.fields /\ k # "updatedAt")
         => plants[last.id][k] = last.pre[last.id][k]
    /\ \A p \in PlantIds \ {last.id} :
         plants[p] = last.pre[p] /\ images[p] = last.preImages[p]

\* a plant with a picture was renamed without sending a file
C19_Witness ==
  /\ PutAnswered
  /\ last.in.file = NoFile
  /\ "name" \in last.in.body.fields
  /\ plants[last.id].name # last.pre[last.id].name
  /\ images[last.id] # NoImage

\* ------------------------------------------------------------------- C20
\* the picture of every plant is an object the bucket holds
PicturesStored ==
  \A p \in PlantIds :
    (Live(p) /\ images[p] # NoImage) => objects[images[p]] = "stored"

\* C20: an update with a new image stores the new object and sets imageUrl
\* to it before the old object is deleted (the imageUrl of a row never
\* names a deleted object); a failed deletion of the old object does not
\* fail the update; a failed upload deletes nothing.
C20_NewImageBeforeOldDeleted ==
  /\ PicturesStored
  /\ (PutAnswered /\ last.in.file # NoFile) =>
       /\ images[last.id] = last.in.key
       /\ objects[last.in.key] = "stored"
  /\ (last.op = "updatePlant" /\ last.in.file # NoFile /\ last.in.put = "throws") =>
       /\ objects = last.preObjects
       /\ images = last.preImages

\* ------------------------------------------------------------------- C21
\* C21: a limiter lets at most its limit of requests through in one window
\* (5 for register and login, 10 for refresh), whatever requests are in
\* flight; a refused request is answered 429 with retryAfter and its
\* handler is not run.
C21_AtMostLimitAdmitted ==
  /\ \A l \in Limiters : limiter[l].admitted <= MaxAttempts(l)
  /\ last.op = "rateLimit" =>
       /\ last.status = 429
       /\ last.retryAfter >= 0
       /\ ~last.handlerRan

\* C22: a logout of the app ends with the store logged out (user, token and
\* refreshToken null, isAuthenticated false) and without an error thrown,
\* whether or not the backend call or the removal of the stored tokens failed.
C22_LogoutEndsLoggedOut ==
  client.result.op = "logout" =>
    /\ client.store = LoggedOut
    /\ ~client.result.thrown

\* C23: GET /plants/needs-water returns exactly the plants of the user that
\* the scan's rule, startOfDay(nextDue) <= startOfDay(now), finds due at the
\* instant of the request.
C23_NeedsWaterIsScanDue ==
  last.op = "needsWater" =>
    last.data = {p \in PlantIds : /\ Live(p)
                                  /\ plants[p].userId = last.user
                                  /\ ScanDue(plants[p], StartOfDay(clock))}

\* C24: POST /plants and PUT /plants/:id answer 409 only when another plant
\* of the same user has the same name (in any letter case): a name that is
\* part of another plant's name, a rename of a plant that changes only the
\* case, and a shortening of a plant's own name are accepted.
SameName(a, b) == ToLower(a) = ToLower(b)

C24_ConflictOnlyForDuplicate ==
  (last.op \in {"create", "update"} /\ last.status = 409) =>
    \E q \in PlantIds : /\ q # last.id
                         /\ Live(q)
                         /\ plants[q].userId = last.user
                         /\ SameName(plants[q].name, Trim(last.in.name))

\* C25: once the app has answered a 401 with a POST /auth/refresh that the
\* server answered 200, the app's stored access token is the one the
\* response carries and its stored refresh token is the one the server now
\* holds for the user, so that the app's next refresh is accepted.
C25_RefreshedTokensStored ==
  (last.op = "refresh" /\ last.status = 200) =>
    /\ client.storage.token = last.data.accessToken
    /\ client.storage.refreshToken = accounts[last.in.refreshToken.userId].refreshToken
    /\ verifyRefreshToken(client.storage.refreshToken, clock)

\* the request the app has under way
Underway == client.pc \in {"refresh", "retry"}

\* the request of a screen that has settled last
Settled == client.result.op = "request"

Redeemed(c) == refreshing[c].op = "answered" /\ refreshing[c].status = 200

\* C26: a refresh token is redeemed at most once, also by two requests that
\* carry it at the same time; and once no refresh request is under way,
\* every refresh token returned in a 200 is the one stored for the user or
\* has been superseded by one issued later.
C26_RedeemedAtMostOnce ==
  /\ \A c1, c2 \in Clients :
       (c1 # c2 /\ Redeemed(c1) /\ Redeemed(c2)) =>
         refreshing[c1].refreshToken # refreshing[c2].refreshToken
  /\ (\A c \in Clients : refreshing[c].op # "lookup") =>
       \A c \in Clients :
         Redeemed(c) =>
           LET t == refreshing[c].tokens.refreshToken
           IN \/ accounts[t.userId].refreshToken = t
              \/ t \in issued[t.userId].prior
              \/ issued[t.userId].cleared

\* the reminder a step of a scan run hands to the notification service
ScanDispatch(r) ==
  /\ runs[r].pc = "loop"
  /\ Len(runs'[r].dispatched) > Len(runs[r].dispatched)

\* the reminder a step of a custom reminder job hands to it
CustomDispatch(i) ==
  /\ i \in DOMAIN jobs.tasks
  /\ i \in DOMAIN jobs'.tasks
  /\ jobs'.tasks[i].fired > jobs.tasks[i].fired

CurrentTokenOf(u, to) == users[u].notificationsEnabled /\ users[u].pushToken = to

\* C27: whenever a scan run or a custom reminder job dispatches a watering
\* reminder, the plant's owner has notifications enabled at that moment and
\* the stored push token is the token the reminder is sent to.
C27_DispatchToCurrentToken ==
  [][/\ \A r \in RunIds :
          ScanDispatch(r) =>
            LET d == runs'[r].dispatched[Len(runs'[r].dispatched)]
            IN CurrentTokenOf(plants[d.plantId].userId, d.to)
     /\ \A i \in 1..MaxTasks :
          CustomDispatch(i) =>
            CurrentTokenOf(jobs.tasks[i].owner, jobs.tasks[i].to)]_vars

\* a task cron.schedule made that has not been destroyed
LiveTask(i) == jobs.tasks[i].status # "destroyed"

\* C28: every cron task that was scheduled and not destroyed is the entry of
\* the jobs map under its key; so after stopAllJobs no task is left, and
\* getJobsStatus lists every live task; a custom reminder fires at most once.
C28_LiveTasksAreInMap ==
  /\ \A i \in DOMAIN jobs.tasks :
       /\ LiveTask(i) => jobs.map[jobs.tasks[i].key] = i
       /\ jobs.tasks[i].fired <= 1
  /\ last.op = "stopAllJobs" => \A i \in DOMAIN jobs.tasks : ~LiveTask(i)
  /\ last.op = "cronStatus" =>
       \A i \in DOMAIN jobs.tasks :
         LiveTask(i) => \E e \in last.data : e.name = jobs.tasks[i].key /\ e.running

\* C29: a POST /plants or PUT /plants/:id answered 400, 404 or 409 leaves the
\* rows as they were and no new object in the bucket, and for a PUT the
\* object the row's imageUrl names is still stored.
C29_RejectedWriteChangesNothing ==
  (last.op \in {"createPlant", "updatePlant"} /\ last.status \in {400, 404, 409}) =>
    /\ plants = last.pre
    /\ images = last.preImages
    /\ \A k \in ObjectKeys : objects[k] = "stored" => last.preObjects[k] = "stored"
    /\ \A p \in PlantIds :
         (/\ last.op = "updatePlant"
          /\ p = last.id
          /\ Live(p)
          /\ images[p] # NoImage
          /\ last.preObjects[images[p]] = "stored") => objects[images[p]] = "stored"

====
